---- MODULE Spec2Model ----
(***************************************************************************)
(* The errors cache of src/server/utils/errorsCache.ts: a per-file store   *)
(* of diagnostics, the debounced emission routine that sends a limited     *)
(* snapshot and a delta against the last-sent baseline, and the            *)
(* application of such deltas to a second (mirror) cache.                  *)
(***************************************************************************)
EXTENDS Integers, Sequences, FiniteSets, TLC

(***************************************************************************)
(* Bounds of the model.                                                    *)
(***************************************************************************)
\* clock ticks that make up the quiet window of the debounce
WaitTicks == 1
\* longest list applyDelta may build by concatenation in the explored runs
MaxList == 1
\* deltas that may be in flight from the source to the mirror
MaxChannel == 1
\* files of the large project whose diagnostics are reported in bulk
NFiles == 6
\* files of the large project that may hold more than the per-file limit
MaxOverCap == 1

\* calls of the producer in a run in which it stops
MaxCalls == 3

\* arrays the two caches and the deltas between them may create in a run that
\* tells the arrays apart
MaxHeap == 3

(***************************************************************************)
(* Program constants.                                                      *)
(***************************************************************************)
\* getErrorsLimited: errors kept per file
PerFileLimit == 50
\* getErrorsLimited: running total after which no further file is added
TotalLimit == 200

Caches == {"src", "mirror"}

VARIABLES
    errorsByFilePath,
    lastErrorsByFilePath,
    timeout,
    elapsed,
    emitted,
    oldErrorsByFilePath,
    channel,
    wired,
    returned,
    heap,
    refs,
    timers,
    budget,
    currentProject,
    contents,
    refreshAll,
    refreshFile,
    piped

vars == <<errorsByFilePath, lastErrorsByFilePath, timeout, elapsed, emitted,
          oldErrorsByFilePath, channel, wired, returned, heap, refs, timers, budget,
          currentProject, contents, refreshAll, refreshFile, piped>>

\* the producer of the diagnostics: the active project, the contents its
\* language service holds, and its two debounced refreshes
producer == <<currentProject, contents, refreshAll, refreshFile>>

\* the state of the host of the caches: the timers it runs for them, the
\* calls the producer has yet to make in a run in which it stops, the
\* producer, and the pairs <<c, d>> of caches with d.applyDelta subscribed to
\* the errorsDelta of c
host == <<timers, budget, producer, piped>>

(***************************************************************************)
(* JavaScript objects used as maps keep their keys in insertion order: an  *)
(* object is a sequence of <<key, value>> pairs with distinct keys.        *)
(***************************************************************************)
Keys(o) == [i \in 1..Len(o) |-> o[i][1]]

Has(o, k) == \E i \in 1..Len(o) : o[i][1] = k

Get(o, k) == o[CHOOSE i \in 1..Len(o) : o[i][1] = k][2]

Put(o, k, v) ==
    IF Has(o, k)
    THEN [o EXCEPT ![CHOOSE i \in 1..Len(o) : o[i][1] = k] = <<k, v>>]
    ELSE Append(o, <<k, v>>)

\* the items of an array (Array.prototype.filter is SelectSeq)
Items(arr) == {arr[i] : i \in 1..Len(arr)}

(***************************************************************************)
(* Diagnostics.                                                            *)
(***************************************************************************)
CodeError(fp, l, c, tl, tc, m) ==
    [filePath |-> fp, from |-> [line |-> l, ch |-> c],
     to |-> [line |-> tl, ch |-> tc], message |-> m]

\* a key that also holds the end of the range
errorKeyWithTo(error) ==
    ToString(error.from.line) \o ":" \o ToString(error.from.ch) \o ":" \o error.message
        \o ":" \o ToString(error.to.line) \o ":" \o ToString(error.to.ch)

\* a key of the position alone
errorKeyNoMessage(error) ==
    ToString(error.from.line) \o ":" \o ToString(error.from.ch)

\* const errorKey = (error) => `${error.from.line}:${error.from.ch}:${error.message}`
errorKey(error) ==
    ToString(error.from.line) \o ":" \o ToString(error.from.ch) \o ":" \o error.message

getFilePath(e) == e.filePath

\* createMapByKey(arr, getKey): an object from each key to the items of arr
\* with that key, its keys in the order of their first item in arr; getKey is
\* given as a function from the items to their keys
createMapByKey(arr, getKey) ==
    LET keys == {getKey[arr[i]] : i \in 1..Len(arr)}
        first(k) == CHOOSE i \in 1..Len(arr) :
                        /\ getKey[arr[i]] = k
                        /\ \A j \in 1..(i - 1) : getKey[arr[j]] # k
        rank(k) == Cardinality({k2 \in keys : first(k2) <= first(k)})
        keyAt(r) == CHOOSE k \in keys : rank(k) = r
    IN [r \in 1..Cardinality(keys) |->
           <<keyAt(r), SelectSeq(arr, LAMBDA item : getKey[item] = keyAt(r))>>]

\* createMapByKey(errors, errorKey) read as a lookup (map[key] is truthy):
\* the keys it holds
errorKeyLookup(errors) == {errorKey(errors[i]) : i \in 1..Len(errors)}

(***************************************************************************)
(* applyDelta, lines 27-37: the store after the delta was merged.          *)
(***************************************************************************)
\* a merge that adds only the diagnostics whose key the list does not hold
RECURSIVE applyAddedDedup(_, _)
applyAddedDedup(store, added) ==
    IF added = <<>> THEN store
    ELSE LET fp == added[1][1]
             list == added[1][2]
             held == IF Has(store, fp) THEN errorKeyLookup(Get(store, fp)) ELSE {}
             fresh == SelectSeq(list, LAMBDA e : errorKey(e) \notin held)
             next == IF ~Has(store, fp) THEN Put(store, fp, list)
                     ELSE Put(store, fp, Get(store, fp) \o fresh)
         IN applyAddedDedup(next, Tail(added))

RECURSIVE applyAdded(_, _)
applyAdded(store, added) ==
    IF added = <<>> THEN store
    ELSE LET fp == added[1][1]
             list == added[1][2]
             next == IF ~Has(store, fp) THEN Put(store, fp, list)
                     ELSE Put(store, fp, Get(store, fp) \o list)
         IN applyAdded(next, Tail(added))

\* a removal that keeps the listed diagnostics and drops the others
RECURSIVE applyRemovedKeepsListed(_, _)
applyRemovedKeepsListed(store, removed) ==
    IF removed = <<>> THEN store
    ELSE LET fp == removed[1][1]
             removedErrorsMap == errorKeyLookup(removed[1][2])
             current == IF Has(store, fp) THEN Get(store, fp) ELSE <<>>
             kept == SelectSeq(current, LAMBDA e : errorKey(e) \in removedErrorsMap)
         IN applyRemovedKeepsListed(Put(store, fp, kept), Tail(removed))

RECURSIVE applyRemoved(_, _)
applyRemoved(store, removed) ==
    IF removed = <<>> THEN store
    ELSE LET fp == removed[1][1]
             removedErrorsMap == errorKeyLookup(removed[1][2])
             current == IF Has(store, fp) THEN Get(store, fp) ELSE <<>>
             kept == SelectSeq(current, LAMBDA e : errorKey(e) \notin removedErrorsMap)
         IN applyRemoved(Put(store, fp, kept), Tail(removed))

\* a merge that forgets the removed part
applyDeltaStoreAddedOnly(store, delta) == applyAdded(store, delta.added)

applyDeltaStore(store, delta) ==
    applyRemoved(applyAdded(store, delta.added), delta.removed)

(***************************************************************************)
(* The delta of sendErrors, lines 59-109.                                  *)
(***************************************************************************)
\* an added part that compares the diagnostics whole, not by their keys
RECURSIVE deltaAddedByValue(_, _, _, _)
deltaAddedByValue(added, old, new, i) ==
    IF i > Len(new) THEN added
    ELSE LET filePath == new[i][1]
             newErrors == new[i][2]
         IN IF ~Has(old, filePath)
            THEN deltaAddedByValue(Put(added, filePath, newErrors), old, new, i + 1)
            ELSE LET fresh == SelectSeq(newErrors,
                                     LAMBDA ne : ne \notin Items(Get(old, filePath)))
                 IN deltaAddedByValue(IF fresh = <<>> THEN added
                                      ELSE Put(added, filePath, fresh),
                                      old, new, i + 1)

RECURSIVE deltaAdded(_, _, _, _)
deltaAdded(added, old, new, i) ==
    IF i > Len(new) THEN added
    ELSE LET filePath == new[i][1]
             newErrors == new[i][2]
         IN IF ~Has(old, filePath)
            THEN deltaAdded(Put(added, filePath, newErrors), old, new, i + 1)
            ELSE LET oldErrorMap == errorKeyLookup(Get(old, filePath))
                     fresh == SelectSeq(newErrors,
                                     LAMBDA ne : errorKey(ne) \notin oldErrorMap)
                 IN deltaAdded(IF fresh = <<>> THEN added
                               ELSE Put(added, filePath, fresh),
                               old, new, i + 1)

\* a removed part that looks the old diagnostics up among the old ones
RECURSIVE deltaRemovedAgainstOld(_, _, _, _)
deltaRemovedAgainstOld(removed, old, new, i) ==
    IF i > Len(old) THEN removed
    ELSE LET filePath == old[i][1]
             oldErrors == old[i][2]
         IN IF ~Has(new, filePath)
            THEN deltaRemovedAgainstOld(Put(removed, filePath, oldErrors), old, new, i + 1)
            ELSE LET oldErrorMap == errorKeyLookup(Get(old, filePath))
                     gone == SelectSeq(oldErrors,
                                    LAMBDA oe : errorKey(oe) \notin oldErrorMap)
                 IN deltaRemovedAgainstOld(IF gone = <<>> THEN removed
                                           ELSE Put(removed, filePath, gone),
                                           old, new, i + 1)

RECURSIVE deltaRemoved(_, _, _, _)
deltaRemoved(removed, old, new, i) ==
    IF i > Len(old) THEN removed
    ELSE LET filePath == old[i][1]
             oldErrors == old[i][2]
         IN IF ~Has(new, filePath)
            THEN deltaRemoved(Put(removed, filePath, oldErrors), old, new, i + 1)
            ELSE LET newErrorMap == errorKeyLookup(Get(new, filePath))
                     gone == SelectSeq(oldErrors,
                                    LAMBDA oe : errorKey(oe) \notin newErrorMap)
                 IN deltaRemoved(IF gone = <<>> THEN removed
                                 ELSE Put(removed, filePath, gone),
                                 old, new, i + 1)

\* a delta that reports no removal for a path that left the store
computeDeltaDiffOnly(old, new) ==
    [added |-> deltaAdded(<<>>, old, new, 1),
     removed |-> deltaRemoved(<<>>, SelectSeq(old, LAMBDA kv : Has(new, kv[1])), new, 1)]

computeDelta(old, new) ==
    [added |-> deltaAdded(<<>>, old, new, 1),
     removed |-> deltaRemoved(<<>>, old, new, 1)]

(***************************************************************************)
(* getErrorsLimited, lines 149-163.                                        *)
(***************************************************************************)
\* a slice that keeps the end of the list
sliceLast(errors, n) ==
    IF Len(errors) > n THEN SubSeq(errors, Len(errors) - n + 1, Len(errors)) ELSE errors

\* a slice that keeps one diagnostic more
sliceInclusive(errors, n) ==
    IF Len(errors) > n THEN SubSeq(errors, 1, n + 1) ELSE errors

slice(errors, n) == IF Len(errors) > n THEN SubSeq(errors, 1, n) ELSE errors

\* a loop that leaves out the file that takes the total over the limit
RECURSIVE limitLoopBreakFirst(_, _, _, _)
limitLoopBreakFirst(limitedCopy, total, store, i) ==
    IF i > Len(store) THEN [copy |-> limitedCopy, total |-> total]
    ELSE LET filePath == store[i][1]
             errors == IF Len(store[i][2]) > PerFileLimit
                       THEN SubSeq(store[i][2], 1, PerFileLimit) ELSE store[i][2]
             sum == total + Len(errors)
         IN IF sum > TotalLimit THEN [copy |-> limitedCopy, total |-> total]
            ELSE limitLoopBreakFirst(Put(limitedCopy, filePath, errors), sum, store, i + 1)

\* a loop that stops as soon as the total reaches the limit
RECURSIVE limitLoopAtLimit(_, _, _, _)
limitLoopAtLimit(limitedCopy, total, store, i) ==
    IF i > Len(store) THEN [copy |-> limitedCopy, total |-> total]
    ELSE LET filePath == store[i][1]
             errors == IF Len(store[i][2]) > PerFileLimit
                       THEN SubSeq(store[i][2], 1, PerFileLimit) ELSE store[i][2]
             copy == Put(limitedCopy, filePath, errors)
             sum == total + Len(errors)
         IN IF sum >= TotalLimit THEN [copy |-> copy, total |-> sum]
            ELSE limitLoopAtLimit(copy, sum, store, i + 1)

RECURSIVE limitLoop(_, _, _, _)
limitLoop(limitedCopy, total, store, i) ==
    IF i > Len(store) THEN [copy |-> limitedCopy, total |-> total]
    ELSE LET filePath == store[i][1]
             errors == slice(store[i][2], PerFileLimit)
             copy == Put(limitedCopy, filePath, errors)
             sum == total + Len(errors)
         IN IF sum > TotalLimit THEN [copy |-> copy, total |-> sum]
            ELSE limitLoop(copy, sum, store, i + 1)

\* a count of the diagnostics that stops at 50 for each file
RECURSIVE sumLengthsCapped(_, _)
sumLengthsCapped(store, i) ==
    IF i > Len(store) THEN 0
    ELSE (IF Len(store[i][2]) > PerFileLimit THEN PerFileLimit ELSE Len(store[i][2]))
             + sumLengthsCapped(store, i + 1)

RECURSIVE sumLengths(_, _)
sumLengths(store, i) ==
    IF i > Len(store) THEN 0 ELSE Len(store[i][2]) + sumLengths(store, i + 1)

\* a view that reports tooMany from the limit instead of the counts
getErrorsLimitedOverLimit(store) ==
    LET limited == limitLoop(<<>>, 0, store, 1)
        totalCount == sumLengths(store, 1)
    IN [errorsByFilePath |-> limited.copy,
        totalCount |-> totalCount,
        syncCount |-> limited.total,
        tooMany |-> limited.total > TotalLimit]

getErrorsLimited(store) ==
    LET limited == limitLoop(<<>>, 0, store, 1)
        totalCount == sumLengths(store, 1)
    IN [errorsByFilePath |-> limited.copy,
        totalCount |-> totalCount,
        syncCount |-> limited.total,
        tooMany |-> limited.total # totalCount]

(***************************************************************************)
(* setErrorsByFilePaths, lines 120-138: the store after the call and       *)
(* whether something was new.                                              *)
(***************************************************************************)
\* deep-equal of the stored list (undefined when absent) with a grouped list
equal(store, filePath, list) == Has(store, filePath) /\ Get(store, filePath) = list

RECURSIVE setFound(_, _, _)
setFound(acc, errorsByFile, i) ==
    IF i > Len(errorsByFile) THEN acc
    ELSE LET filePath == errorsByFile[i][1]
             list == errorsByFile[i][2]
         IN IF ~equal(acc.store, filePath, list)
            THEN setFound([store |-> Put(acc.store, filePath, list),
                           somethingNew |-> TRUE], errorsByFile, i + 1)
            ELSE setFound(acc, errorsByFile, i + 1)

\* a clearing that gives an empty list to every listed path without
\* diagnostics, also to one the store does not hold
RECURSIVE clearNotFoundCreates(_, _, _, _)
clearNotFoundCreates(acc, errorsByFile, filePaths, i) ==
    IF i > Len(filePaths) THEN acc
    ELSE LET filePath == filePaths[i]
         IN IF ~Has(errorsByFile, filePath)
            THEN clearNotFoundCreates([store |-> Put(acc.store, filePath, <<>>),
                                       somethingNew |-> TRUE],
                                      errorsByFile, filePaths, i + 1)
            ELSE clearNotFoundCreates(acc, errorsByFile, filePaths, i + 1)

RECURSIVE clearNotFound(_, _, _, _)
clearNotFound(acc, errorsByFile, filePaths, i) ==
    IF i > Len(filePaths) THEN acc
    ELSE LET filePath == filePaths[i]
         IN IF ~Has(errorsByFile, filePath)
               /\ Has(acc.store, filePath) /\ Len(Get(acc.store, filePath)) > 0
            THEN clearNotFound([store |-> Put(acc.store, filePath, <<>>),
                                somethingNew |-> TRUE],
                               errorsByFile, filePaths, i + 1)
            ELSE clearNotFound(acc, errorsByFile, filePaths, i + 1)

\* a call that always reports something new
setErrorsResultAlwaysNew(store, filePaths, errors) ==
    LET errorsByFile == createMapByKey(errors, [e \in Items(errors) |-> getFilePath(e)])
        found == setFound([store |-> store, somethingNew |-> FALSE], errorsByFile, 1)
    IN [store |-> clearNotFound(found, errorsByFile, filePaths, 1).store,
        somethingNew |-> TRUE]

setErrorsResult(store, filePaths, errors) ==
    LET errorsByFile == createMapByKey(errors, [e \in Items(errors) |-> getFilePath(e)])
        found == setFound([store |-> store, somethingNew |-> FALSE], errorsByFile, 1)
    IN clearNotFound(found, errorsByFile, filePaths, 1)

\* getErrorsForFilePath, lines 180-182
getErrorsForFilePath(store, filePath) ==
    IF Has(store, filePath) THEN Get(store, filePath) ELSE <<>>

(***************************************************************************)
(* The debounce of sendErrors (250ms, trailing edge): a call starts or     *)
(* restarts the quiet window; the body runs once the window has elapsed    *)
(* with no further call.                                                   *)
(***************************************************************************)
sendErrors(c) ==
    /\ timeout' = [timeout EXCEPT ![c] = TRUE]
    /\ elapsed' = [elapsed EXCEPT ![c] = 0]

NoEvents == [c \in Caches |-> <<>>]

\* a step that runs no emission routine emits nothing
Silent ==
    /\ emitted' = NoEvents
    /\ oldErrorsByFilePath' = NoEvents

\* a clock that does not advance the pending timer
TickStalled(c) ==
    /\ timeout[c]
    /\ elapsed[c] < WaitTicks
    /\ elapsed' = elapsed
    /\ Silent
    /\ UNCHANGED <<errorsByFilePath, lastErrorsByFilePath, timeout, channel, wired>>

\* time passes for the pending timer of cache c
Tick(c) ==
    /\ timeout[c]
    /\ elapsed[c] < WaitTicks
    /\ elapsed' = [elapsed EXCEPT ![c] = elapsed[c] + 1]
    /\ Silent
    /\ UNCHANGED <<errorsByFilePath, lastErrorsByFilePath, timeout, channel, wired>>

\* the subscribers of the two events, in subscription order
Listeners(event) == IF event = "errorsUpdated" THEN <<"u1", "u2">> ELSE <<"d1", "d2">>

Subscribers == {"u1", "u2", "d1", "d2"}

\* the first position of a failing subscriber, 0 when none fails
FirstFailure(listeners, failing) ==
    IF \E i \in 1..Len(listeners) : listeners[i] \in failing
    THEN CHOOSE i \in 1..Len(listeners) :
             /\ listeners[i] \in failing
             /\ \A j \in 1..(i - 1) : listeners[j] \notin failing
    ELSE 0

\* an emit that lets the failure of a subscriber out: the later subscribers
\* are not invoked and the caller is interrupted
emitUnguarded(event, value, failing) ==
    LET failure == FirstFailure(Listeners(event), failing)
    IN [event |-> event, value |-> value,
        invoked |-> IF failure = 0 THEN Listeners(event)
                    ELSE SubSeq(Listeners(event), 1, failure),
        failed |-> {l \in failing : \E i \in 1..Len(Listeners(event)) :
                                        /\ Listeners(event)[i] = l
                                        /\ failure # 0 => i <= failure},
        threw |-> failure # 0]

\* TypedEvent.emit: every subscriber of the event is invoked with the value,
\* in subscription order; the failure of one is kept from the others and from
\* the caller
emit(event, value, failing) ==
    [event |-> event, value |-> value,
     invoked |-> Listeners(event),
     failed |-> {l \in failing : \E i \in 1..Len(Listeners(event)) :
                                     Listeners(event)[i] = l},
     threw |-> FALSE]

\* a run that keeps the store as the baseline before it computes the delta
RunBaselineFirst(c, failing) ==
    /\ timeout[c]
    /\ elapsed[c] = WaitTicks
    /\ (wired /\ c = "src") => Len(channel) < MaxChannel
    /\ LET updated == emit("errorsUpdated", getErrorsLimited(errorsByFilePath[c]),
                           failing)
           delta == computeDelta(errorsByFilePath[c], errorsByFilePath[c])
           produced == emit("errorsDelta", delta, failing)
       IN /\ emitted' = [NoEvents EXCEPT ![c] = <<updated, produced>>]
          /\ channel' = IF wired /\ c = "src" THEN Append(channel, delta) ELSE channel
          /\ lastErrorsByFilePath' =
                 [lastErrorsByFilePath EXCEPT ![c] = errorsByFilePath[c]]
    /\ oldErrorsByFilePath' = [NoEvents EXCEPT ![c] = lastErrorsByFilePath[c]]
    /\ timeout' = [timeout EXCEPT ![c] = FALSE]
    /\ elapsed' = [elapsed EXCEPT ![c] = 0]
    /\ UNCHANGED <<errorsByFilePath, wired>>

\* a run that keeps an empty delta to itself
RunUnlessEmpty(c, failing) ==
    /\ timeout[c]
    /\ elapsed[c] = WaitTicks
    /\ (wired /\ c = "src") => Len(channel) < MaxChannel
    /\ LET updated == emit("errorsUpdated", getErrorsLimited(errorsByFilePath[c]),
                           failing)
           delta == computeDelta(lastErrorsByFilePath[c], errorsByFilePath[c])
           produced == emit("errorsDelta", delta, failing)
           empty == delta.added = <<>> /\ delta.removed = <<>>
       IN /\ emitted' = [NoEvents EXCEPT ![c] = IF empty THEN <<updated>>
                                                ELSE <<updated, produced>>]
          /\ channel' = IF wired /\ c = "src" /\ ~empty
                        THEN Append(channel, delta) ELSE channel
          /\ lastErrorsByFilePath' =
                 [lastErrorsByFilePath EXCEPT ![c] = errorsByFilePath[c]]
    /\ oldErrorsByFilePath' = [NoEvents EXCEPT ![c] = lastErrorsByFilePath[c]]
    /\ timeout' = [timeout EXCEPT ![c] = FALSE]
    /\ elapsed' = [elapsed EXCEPT ![c] = 0]
    /\ UNCHANGED <<errorsByFilePath, wired>>

\* the body of sendErrors, lines 56-117, run by the timer while the
\* subscribers in failing fail; a failure that gets out of an emit ends the run
Run(c, failing) ==
    /\ timeout[c]
    /\ elapsed[c] = WaitTicks
    /\ (wired /\ c = "src") => Len(channel) < MaxChannel
    /\ LET updated == emit("errorsUpdated", getErrorsLimited(errorsByFilePath[c]),
                           failing)
           delta == computeDelta(lastErrorsByFilePath[c], errorsByFilePath[c])
           produced == emit("errorsDelta", delta, failing)
       IN /\ emitted' = [NoEvents EXCEPT ![c] = IF updated.threw THEN <<updated>>
                                                ELSE <<updated, produced>>]
          /\ channel' = IF wired /\ c = "src" /\ ~updated.threw
                        THEN Append(channel, delta) ELSE channel
          /\ lastErrorsByFilePath' =
                 IF updated.threw \/ produced.threw THEN lastErrorsByFilePath
                 ELSE [lastErrorsByFilePath EXCEPT ![c] = errorsByFilePath[c]]
    /\ oldErrorsByFilePath' = [NoEvents EXCEPT ![c] = lastErrorsByFilePath[c]]
    /\ timeout' = [timeout EXCEPT ![c] = FALSE]
    /\ elapsed' = [elapsed EXCEPT ![c] = 0]
    /\ UNCHANGED <<errorsByFilePath, wired>>

\* a run in which no subscriber fails
Fire(c) == Run(c, {})

\* setErrorsByFilePaths, lines 120-143
setErrorsByFilePaths(c, filePaths, errors) ==
    LET r == setErrorsResult(errorsByFilePath[c], filePaths, errors)
    IN /\ errorsByFilePath' = [errorsByFilePath EXCEPT ![c] = r.store]
       /\ IF r.somethingNew THEN sendErrors(c) ELSE UNCHANGED <<timeout, elapsed>>
       /\ Silent
       /\ UNCHANGED <<lastErrorsByFilePath, channel, wired>>

\* a clearErrors that empties the lists and keeps their keys
clearErrorsKeepsKeys(c) ==
    /\ errorsByFilePath' =
           [errorsByFilePath EXCEPT
                ![c] = [i \in 1..Len(errorsByFilePath[c]) |->
                            <<errorsByFilePath[c][i][1], <<>>>>]]
    /\ sendErrors(c)
    /\ Silent
    /\ UNCHANGED <<lastErrorsByFilePath, channel, wired>>

\* a clearErrors that runs the emission routine at once
clearErrorsUndebounced(c) ==
    /\ errorsByFilePath' = [errorsByFilePath EXCEPT ![c] = <<>>]
    /\ emitted' = [NoEvents EXCEPT ![c] =
                       <<emit("errorsUpdated", getErrorsLimited(<<>>), {}),
                         emit("errorsDelta", computeDelta(lastErrorsByFilePath[c], <<>>),
                              {})>>]
    /\ oldErrorsByFilePath' = [NoEvents EXCEPT ![c] = lastErrorsByFilePath[c]]
    /\ lastErrorsByFilePath' = [lastErrorsByFilePath EXCEPT ![c] = <<>>]
    /\ UNCHANGED <<timeout, elapsed, channel, wired>>

\* a clearErrors that forgets the baseline with the store
clearErrorsAndBaseline(c) ==
    /\ errorsByFilePath' = [errorsByFilePath EXCEPT ![c] = <<>>]
    /\ lastErrorsByFilePath' = [lastErrorsByFilePath EXCEPT ![c] = <<>>]
    /\ sendErrors(c)
    /\ Silent
    /\ UNCHANGED <<channel, wired>>

\* clearErrors, lines 168-171
clearErrors(c) ==
    /\ errorsByFilePath' = [errorsByFilePath EXCEPT ![c] = <<>>]
    /\ sendErrors(c)
    /\ Silent
    /\ UNCHANGED <<lastErrorsByFilePath, channel, wired>>

\* a clearErrorsForFilePath that triggers the emission only when it empties
\* a list that held diagnostics
clearErrorsForFilePathIfNeeded(c, filePath) ==
    /\ errorsByFilePath' =
           [errorsByFilePath EXCEPT ![c] = Put(errorsByFilePath[c], filePath, <<>>)]
    /\ IF getErrorsForFilePath(errorsByFilePath[c], filePath) # <<>>
       THEN sendErrors(c) ELSE UNCHANGED <<timeout, elapsed>>
    /\ Silent
    /\ UNCHANGED <<lastErrorsByFilePath, channel, wired>>

\* clearErrorsForFilePath, lines 174-177
clearErrorsForFilePath(c, filePath) ==
    /\ errorsByFilePath' =
           [errorsByFilePath EXCEPT ![c] = Put(errorsByFilePath[c], filePath, <<>>)]
    /\ sendErrors(c)
    /\ Silent
    /\ UNCHANGED <<lastErrorsByFilePath, channel, wired>>

\* an applyDelta that merges and tells nobody
applyDeltaQuiet(c, delta) ==
    /\ errorsByFilePath' =
           [errorsByFilePath EXCEPT ![c] = applyDeltaStore(errorsByFilePath[c], delta)]
    /\ Silent
    /\ UNCHANGED <<lastErrorsByFilePath, timeout, elapsed, wired>>

\* applyDelta, lines 27-39 (the channel is the caller's)
applyDelta(c, delta) ==
    /\ errorsByFilePath' =
           [errorsByFilePath EXCEPT ![c] = applyDeltaStore(errorsByFilePath[c], delta)]
    /\ sendErrors(c)
    /\ Silent
    /\ UNCHANGED <<lastErrorsByFilePath, wired>>

(***************************************************************************)
(* The inputs of the explored runs.                                        *)
(***************************************************************************)
e1 == CodeError("a.ts", 1, 2, 1, 5, "msg1")
\* the identity of e1 with another end of the range
e1x == CodeError("a.ts", 1, 2, 1, 9, "msg1")
e3 == CodeError("a.ts", 1, 2, 1, 5, "msg1-changed")
e2 == CodeError("b.ts", 3, 4, 3, 6, "msg2")

Paths == {"a.ts", "b.ts"}

Call(filePaths, errors) == [filePaths |-> filePaths, errors |-> errors]

\* the calls of the producer: the files it analysed and their diagnostics
Calls ==
    {Call(<<"a.ts">>, <<e1>>), Call(<<"a.ts">>, <<e1x>>), Call(<<"a.ts">>, <<e3>>),
     Call(<<"a.ts">>, <<e1, e3>>), Call(<<"a.ts">>, <<e1, e1x>>),
     Call(<<"b.ts">>, <<e2>>), Call(<<"a.ts", "b.ts">>, <<e1, e2>>),
     Call(<<"a.ts", "b.ts">>, <<e3>>), Call(<<"a.ts", "b.ts">>, <<>>),
     Call(<<"a.ts">>, <<>>), Call(<<"b.ts">>, <<>>), Call(<<>>, <<e2>>)}

Obj(k, v) == <<<<k, v>>>>

DeltaInputs ==
    {[added |-> Obj("a.ts", <<e3>>), removed |-> <<>>],
     [added |-> Obj("a.ts", <<e1>>), removed |-> Obj("a.ts", <<e3>>)],
     [added |-> <<>>, removed |-> Obj("b.ts", <<e2>>)],
     [added |-> <<>>, removed |-> Obj("a.ts", <<e3>>)],
     [added |-> Obj("b.ts", <<e2>>), removed |-> Obj("a.ts", <<e1x>>)]}

Short(store) == \A i \in 1..Len(store) : Len(store[i][2]) <= MaxList

\* no query has returned in the step
NoResult == <<>>

\* the host runs no timer
NoTimers == [c \in Caches |-> <<>>]

\* the host at the construction of the caches
\* the source files the projects are made of
Files == {"a.ts", "b.ts"}

\* let currentProject: project.Project = null
NoProject == "null"

\* a debounced function that was not called yet
Idle == [pending |-> FALSE, elapsed |-> 0]

\* the producer before a project is active, lines 212-214
ProducerInit ==
    /\ currentProject = NoProject
    /\ contents = [f \in Files |-> "clean"]
    /\ refreshAll = Idle
    /\ refreshFile = [pending |-> FALSE, elapsed |-> 0, filePath |-> "a.ts"]

HostInit ==
    /\ timers = NoTimers
    /\ budget = 0
    /\ ProducerInit
    /\ piped = {}

\* the caches hold no array
NoRefs == [c \in Caches |-> [errorsByFilePath |-> <<>>, lastErrorsByFilePath |-> <<>>]]

\* a step of a run that looks at the values of the lists only: no query
\* returns in it and the arrays that hold the lists are not told apart
Plain ==
    /\ returned' = NoResult
    /\ UNCHANGED <<heap, refs>>
    /\ UNCHANGED host

Init ==
    /\ errorsByFilePath = NoEvents
    /\ lastErrorsByFilePath = NoEvents
    /\ timeout = [c \in Caches |-> FALSE]
    /\ elapsed = [c \in Caches |-> 0]
    /\ emitted = NoEvents
    /\ oldErrorsByFilePath = NoEvents
    /\ channel = <<>>
    /\ wired = FALSE
    /\ returned = NoResult
    /\ heap = <<>>
    /\ refs = NoRefs
    /\ HostInit

SetErrors ==
    /\ \E call \in Calls : setErrorsByFilePaths("src", call.filePaths, call.errors)
    /\ Plain

ClearErrors == clearErrors("src") /\ Plain

ClearErrorsForFilePath ==
    /\ \E filePath \in Paths : clearErrorsForFilePath("src", filePath)
    /\ Plain

ApplyDelta ==
    \E delta \in DeltaInputs :
        /\ Short(applyDeltaStore(errorsByFilePath["src"], delta))
        /\ applyDelta("src", delta)
        /\ UNCHANGED channel
        /\ Plain

TickSrc == Tick("src") /\ Plain

FireSrc == Fire("src") /\ Plain

Next ==
    \/ SetErrors
    \/ ClearErrors
    \/ ClearErrorsForFilePath
    \/ ApplyDelta
    \/ TickSrc
    \/ FireSrc

Spec == Init /\ [][Next]_vars

(***************************************************************************)
(* A large project: the producer reports its files one by one, each with a *)
(* bulk of diagnostics.                                                    *)
(***************************************************************************)
FileName(i) == "f" \o ToString(i) \o ".ts"

Bulk(filePath, n) ==
    SubSeq([i \in 1..n |-> CodeError(filePath, i, 0, i, 1, "bulk")], 1, n)

BulkCounts == {25, 50, 60}

ReportFile ==
    \E n \in BulkCounts :
        LET filePath == FileName(Len(errorsByFilePath["src"]) + 1)
            store == errorsByFilePath["src"]
            overCap == {i \in 1..Len(store) : Len(store[i][2]) > PerFileLimit}
        IN /\ Len(store) < NFiles
           /\ n > PerFileLimit => Cardinality(overCap) < MaxOverCap
           /\ setErrorsByFilePaths("src", <<filePath>>, Bulk(filePath, n))
           /\ Plain

NextLimit ==
    \/ ReportFile
    \/ TickSrc
    \/ FireSrc

SpecLimit == Init /\ [][NextLimit]_vars

(***************************************************************************)
(* Vocabulary of the properties.                                           *)
(***************************************************************************)
\* the identity of a diagnostic: (from.line, from.ch, message)
IdentityKey(e) == <<e.from.line, e.from.ch, e.message>>

IdentityKeys(errors) == {IdentityKey(errors[i]) : i \in 1..Len(errors)}

\* the (filePath, identityKey) pairs of a store
KeyPairs(store) ==
    UNION {{<<store[i][1], k>> : k \in IdentityKeys(store[i][2])} : i \in 1..Len(store)}

\* cache c ran its emission routine in the latest step
Fired(c) == emitted[c] # <<>>

SentSnapshot(c) == emitted[c][1].value

SentDelta(c) == emitted[c][2].value

\* C1: round trip. The delta a firing computes between the baseline A and the
\* store B, applied by applyDelta to a store A, gives a store with the
\* (filePath, identityKey) pairs of B.
RoundTrip ==
    \A c \in Caches :
        Fired(c) =>
            KeyPairs(applyDeltaStore(oldErrorsByFilePath[c], SentDelta(c)))
                = KeyPairs(errorsByFilePath[c])

\* a firing whose delta adds and removes, between stores that share a key
RoundTripWitness ==
    /\ Fired("src")
    /\ SentDelta("src").added # <<>>
    /\ SentDelta("src").removed # <<>>
    /\ KeyPairs(oldErrorsByFilePath["src"]) \cap KeyPairs(errorsByFilePath["src"]) # {}

\* C3: delta disjointness. In every emitted delta no identity key is both in
\* added[path] and in removed[path].
DeltaDisjoint ==
    \A c \in Caches :
        Fired(c) =>
            \A filePath \in Paths :
                LET d == SentDelta(c)
                IN (Has(d.added, filePath) /\ Has(d.removed, filePath)) =>
                       IdentityKeys(Get(d.added, filePath))
                           \cap IdentityKeys(Get(d.removed, filePath)) = {}

\* an emitted delta that adds to and removes from the same path
DeltaDisjointWitness ==
    /\ Fired("src")
    /\ \E filePath \in Paths :
           /\ Has(SentDelta("src").added, filePath)
           /\ Has(SentDelta("src").removed, filePath)
           /\ Get(SentDelta("src").added, filePath) # <<>>
           /\ Get(SentDelta("src").removed, filePath) # <<>>

\* C4: in every emitted delta no key of added or removed maps to an empty
\* list.
NoEmptyDeltaKeys ==
    \A c \in Caches :
        Fired(c) =>
            LET d == SentDelta(c)
            IN /\ \A i \in 1..Len(d.added) : d.added[i][2] # <<>>
               /\ \A i \in 1..Len(d.removed) : d.removed[i][2] # <<>>

\* the batch has no diagnostic for the path
Clean(errors, filePath) == \A i \in 1..Len(errors) : errors[i].filePath # filePath

Listed(filePaths, filePath) == \E j \in 1..Len(filePaths) : filePaths[j] = filePath

\* every touched path already stores the batch's diagnostics and every path
\* listed without diagnostics has an empty or absent list
NoOpCall(c, filePaths, errors) ==
    /\ \A i \in 1..Len(errors) :
           /\ Has(errorsByFilePath[c], errors[i].filePath)
           /\ Get(errorsByFilePath[c], errors[i].filePath)
                  = SelectSeq(errors, LAMBDA e : e.filePath = errors[i].filePath)
    /\ \A j \in 1..Len(filePaths) :
           Clean(errors, filePaths[j]) =>
               getErrorsForFilePath(errorsByFilePath[c], filePaths[j]) = <<>>

\* C5: no-op suppression. A setErrorsByFilePaths call whose batch equals what
\* is stored for every touched path, and whose other listed paths are empty or
\* absent, leaves the store unchanged and neither schedules nor reschedules
\* the debounced sendErrors.
NoOpSuppression ==
    [][\A call \in Calls :
           (NoOpCall("src", call.filePaths, call.errors)
                /\ setErrorsByFilePaths("src", call.filePaths, call.errors))
               => UNCHANGED <<errorsByFilePath, timeout, elapsed>>]_vars

\* a no-op call is possible while an emission is pending and part of the
\* window has passed
NoOpSuppressionWitness ==
    /\ timeout["src"]
    /\ elapsed["src"] = 1
    /\ NoOpCall("src", <<"a.ts", "b.ts">>, <<e3>>)
    /\ Has(errorsByFilePath["src"], "b.ts")

\* no diagnostic was cut from the snapshot: it shows the whole store
Whole(snapshot, store) == snapshot.errorsByFilePath = store /\ ~snapshot.tooMany

\* C6: debounce coalescing. A mutating call emits nothing and restarts the
\* quiet window; the emission runs only when a whole window has passed since
\* the latest call, once, and its snapshot and delta describe the store of
\* that moment.
Coalescing ==
    [][\A c \in Caches :
           /\ errorsByFilePath'[c] # errorsByFilePath[c] =>
                  /\ emitted'[c] = <<>>
                  /\ timeout'[c]
                  /\ elapsed'[c] = 0
           /\ elapsed'[c] > elapsed[c] =>
                  /\ elapsed'[c] = elapsed[c] + 1
                  /\ emitted'[c] = <<>>
           /\ emitted'[c] # <<>> =>
                  /\ timeout[c]
                  /\ elapsed[c] = WaitTicks
                  /\ ~timeout'[c]
                  /\ errorsByFilePath'[c] = errorsByFilePath[c]
                  /\ Len(emitted'[c]) = 2
                  /\ Whole(emitted'[c][1].value, errorsByFilePath[c])
                  /\ KeyPairs(applyDeltaStore(lastErrorsByFilePath[c],
                                              emitted'[c][2].value))
                         = KeyPairs(errorsByFilePath[c])
                  /\ lastErrorsByFilePath'[c] = errorsByFilePath[c]]_vars

\* an emission of a store that differs from the baseline in two paths: the
\* burst before it held more than one change
CoalescingWitness ==
    /\ Fired("src")
    /\ Len(SentDelta("src").added) + Len(SentDelta("src").removed) >= 2
    /\ oldErrorsByFilePath["src"] # <<>>

AsMap(o) == {o[i] : i \in 1..Len(o)}

ScenarioBefore == {<<"a.ts", <<e1>>>>, <<"b.ts", <<e2>>>>}

ScenarioAfter == {<<"a.ts", <<e3>>>>, <<"b.ts", <<>>>>}

ScenarioStep ==
    (AsMap(errorsByFilePath["src"]) = ScenarioBefore
         /\ setErrorsByFilePaths("src", <<"a.ts", "b.ts">>, <<e3>>))
        => AsMap(errorsByFilePath'["src"]) = ScenarioAfter

ScenarioDelta ==
    (emitted'["src"] # <<>>
         /\ AsMap(lastErrorsByFilePath["src"]) = ScenarioBefore
         /\ AsMap(errorsByFilePath["src"]) = ScenarioAfter)
        => /\ AsMap(emitted'["src"][2].value.added) = {<<"a.ts", <<e3>>>>}
           /\ AsMap(emitted'["src"][2].value.removed)
                  = {<<"a.ts", <<e1>>>>, <<"b.ts", <<e2>>>>}

\* the call lists filePath without diagnostics while its list is not empty
ClearsListed(call, filePath) ==
    /\ Listed(call.filePaths, filePath)
    /\ Clean(call.errors, filePath)
    /\ getErrorsForFilePath(errorsByFilePath["src"], filePath) # <<>>
    /\ setErrorsByFilePaths("src", call.filePaths, call.errors)

\* the delta of a firing that follows the step at once
NextDelta == computeDelta(lastErrorsByFilePath'["src"], errorsByFilePath'["src"])

RemovedNext(filePath) ==
    /\ Has(NextDelta.removed, filePath)
    /\ Get(NextDelta.removed, filePath) = Get(errorsByFilePath["src"], filePath)

\* C7 as stated: the scenario, and in general a path listed without
\* diagnostics whose list was not empty is set to [] and its previous
\* diagnostics are in removed[path] of the next delta.
ClearedAreRemoved ==
    [][/\ ScenarioStep
       /\ ScenarioDelta
       /\ \A call \in Calls, filePath \in Paths :
              ClearsListed(call, filePath) =>
                  /\ Get(errorsByFilePath'["src"], filePath) = <<>>
                  /\ RemovedNext(filePath)]_vars

\* C7 amended: the scenario, and in general a path listed without diagnostics
\* whose list was not empty is set to [], and its previous diagnostics are in
\* removed[path] of the next delta when the baseline holds that same list for
\* the path.
ClearedAndSentAreRemoved ==
    [][/\ ScenarioStep
       /\ ScenarioDelta
       /\ \A call \in Calls, filePath \in Paths :
              ClearsListed(call, filePath) =>
                  /\ Get(errorsByFilePath'["src"], filePath) = <<>>
                  /\ (getErrorsForFilePath(lastErrorsByFilePath["src"], filePath)
                          = Get(errorsByFilePath["src"], filePath))
                         => RemovedNext(filePath)]_vars

\* the scenario's delta was emitted
ScenarioWitness ==
    /\ Fired("src")
    /\ AsMap(oldErrorsByFilePath["src"]) = ScenarioBefore
    /\ AsMap(errorsByFilePath["src"]) = ScenarioAfter

(***************************************************************************)
(* Properties of the limited view.                                         *)
(***************************************************************************)
Limited(c) == getErrorsLimited(errorsByFilePath[c])

\* the snapshot a firing of cache c emitted is the limited view of its store
SnapshotIsLimited(c) == Fired(c) => SentSnapshot(c) = Limited(c)

\* C8: truncation invariant. For every reachable store the result of
\* getErrorsLimited has syncCount <= totalCount and
\* tooMany = (syncCount # totalCount).
TruncationInvariant ==
    \A c \in Caches :
        /\ Limited(c).syncCount <= Limited(c).totalCount
        /\ Limited(c).tooMany = (Limited(c).syncCount # Limited(c).totalCount)

\* a store whose view is cut, and whose view was emitted
TruncationWitness ==
    /\ Fired("src")
    /\ SentSnapshot("src").tooMany
    /\ SentSnapshot("src").syncCount > TotalLimit
    /\ SentSnapshot("src").syncCount < SentSnapshot("src").totalCount

\* the first n items of a list, in its order
FirstOf(errors, n) == [i \in 1..n |-> errors[i]]

Smaller(a, b) == IF a < b THEN a ELSE b

\* C9: per-file cap. In every result of getErrorsLimited, and in every
\* emitted snapshot, each included path holds at most 50 diagnostics: the first
\* min(50, n) of its stored list, in stored order.
PerFileCap ==
    \A c \in Caches :
        /\ SnapshotIsLimited(c)
        /\ \A i \in 1..Len(Limited(c).errorsByFilePath) :
               LET filePath == Limited(c).errorsByFilePath[i][1]
                   included == Limited(c).errorsByFilePath[i][2]
                   stored == getErrorsForFilePath(errorsByFilePath[c], filePath)
               IN /\ Len(included) <= 50
                  /\ Has(errorsByFilePath[c], filePath)
                  /\ included = FirstOf(stored, Smaller(50, Len(stored)))

\* an emitted snapshot with a file of more than 50 stored diagnostics
PerFileCapWitness ==
    /\ Fired("src")
    /\ \E i \in 1..Len(SentSnapshot("src").errorsByFilePath) :
           /\ Len(SentSnapshot("src").errorsByFilePath[i][2]) = 50
           /\ Len(errorsByFilePath["src"][i][2]) > 50

\* a store of 250 diagnostics in 6 files of at most 50 each
Scenario250(store) ==
    /\ Len(store) = 6
    /\ sumLengths(store, 1) = 250
    /\ \A i \in 1..Len(store) : Len(store[i][2]) <= 50

IsPrefix(keys, all) == Len(keys) <= Len(all) /\ \A i \in 1..Len(keys) : keys[i] = all[i]

RECURSIVE SumFirst(_, _)
SumFirst(store, n) == IF n = 0 THEN 0 ELSE SumFirst(store, n - 1) + Len(store[n][2])

MirrorCalls ==
    {Call(<<"a.ts">>, <<e1, e3>>), Call(<<"a.ts", "b.ts">>, <<e3>>),
     Call(<<"a.ts", "b.ts">>, <<e1x, e2>>)}

InitMirror ==
    /\ errorsByFilePath = NoEvents
    /\ lastErrorsByFilePath = NoEvents
    /\ timeout = [c \in Caches |-> FALSE]
    /\ elapsed = [c \in Caches |-> 0]
    /\ emitted = NoEvents
    /\ oldErrorsByFilePath = NoEvents
    /\ channel = <<>>
    /\ wired = TRUE
    /\ returned = NoResult
    /\ heap = <<>>
    /\ refs = NoRefs
    /\ HostInit

SetErrorsSource ==
    /\ \E call \in MirrorCalls : setErrorsByFilePaths("src", call.filePaths, call.errors)
    /\ Plain

\* the source clears a file it reported, or one it never reported
ClearErrorsForFilePathSource == clearErrorsForFilePath("src", "b.ts") /\ Plain

Deliver ==
    /\ wired
    /\ channel # <<>>
    /\ applyDelta("mirror", Head(channel))
    /\ channel' = Tail(channel)
    /\ Plain

NextMirror ==
    \/ SetErrorsSource
    \/ ClearErrors
    \/ ClearErrorsForFilePathSource
    \/ TickSrc
    \/ FireSrc
    \/ Deliver

SpecMirror == InitMirror /\ [][NextMirror]_vars

\* the store after the deltas were applied in order
RECURSIVE applyAll(_, _)
applyAll(store, deltas) ==
    IF deltas = <<>> THEN store
    ELSE applyAll(applyDeltaStore(store, Head(deltas)), Tail(deltas))

\* C2: mirror convergence. Once the deltas in flight are applied, in
\* particular whenever none is in flight, the mirror's store has the
\* (filePath, identityKey) pairs the source's store had at its latest
\* emission.
MirrorConverges ==
    KeyPairs(applyAll(errorsByFilePath["mirror"], channel))
        = KeyPairs(lastErrorsByFilePath["src"])

\* the mirror applied every delta, holds diagnostics, and its lists are not
\* those of the source
MirrorConvergesWitness ==
    /\ channel = <<>>
    /\ KeyPairs(errorsByFilePath["mirror"]) # {}
    /\ errorsByFilePath["mirror"] # lastErrorsByFilePath["src"]
    /\ Len(errorsByFilePath["mirror"]) = 2

(***************************************************************************)
(* Properties of the single calls.                                         *)
(***************************************************************************)
\* the paths a client may ask for: those of the producer and one it never
\* reports
QueryPaths == Paths \cup {"c.ts"}

\* C11: clear semantics. Right after clearErrors(), from any reachable state,
\* the store has no keys and getErrorsForFilePath(p) is the empty sequence for
\* every path p, those that held diagnostics included.
ClearSemantics ==
    [][clearErrors("src") =>
           /\ Len(errorsByFilePath'["src"]) = 0
           /\ \A filePath \in QueryPaths :
                  getErrorsForFilePath(errorsByFilePath'["src"], filePath) = <<>>]_vars

\* the store was cleared of diagnostics that had been emitted
ClearSemanticsWitness ==
    /\ errorsByFilePath["src"] = <<>>
    /\ timeout["src"]
    /\ elapsed["src"] = 0
    /\ Len(lastErrorsByFilePath["src"]) = 2
    /\ \A i \in 1..2 : lastErrorsByFilePath["src"][i][2] # <<>>

\* the step starts, or starts again, the quiet window of cache c
Scheduled(c) == timeout'[c] /\ elapsed'[c] = 0

\* the events of an emission: the snapshot, then the delta
BothEvents(events) ==
    /\ Len(events) = 2
    /\ events[1].event = "errorsUpdated"
    /\ events[2].event = "errorsDelta"

\* C12: clearErrors() and clearErrorsForFilePath(path) schedule the debounced
\* emission whatever the store holds, also when it is empty or the path's
\* list is empty or absent; a scheduled emission ends in no other way than by
\* the run that emits a snapshot event and a delta event, which can be taken
\* once the window has elapsed.
UnconditionalTrigger ==
    [][/\ clearErrors("src") => Scheduled("src")
       /\ \A filePath \in Paths :
              clearErrorsForFilePath("src", filePath) => Scheduled("src")
       /\ (timeout["src"] /\ ~timeout'["src"]) =>
              /\ elapsed["src"] = WaitTicks
              /\ BothEvents(emitted'["src"])
       /\ (timeout["src"] /\ elapsed["src"] = WaitTicks) => ENABLED FireSrc]_vars

\* an emission for a store that equals the baseline and holds a path with an
\* empty list: the call before it changed nothing
UnconditionalTriggerWitness ==
    /\ Fired("src")
    /\ BothEvents(emitted["src"])
    /\ oldErrorsByFilePath["src"] = <<<<"a.ts", <<>>>>>>
    /\ errorsByFilePath["src"] = <<<<"a.ts", <<>>>>>>

\* C13: every applyDelta call on a cache schedules that cache's own emission,
\* whatever the delta changes; the run that ends the pending emission sends
\* the subscribers of errorsUpdated the limited snapshot of the store as
\* merged, and the subscribers of errorsDelta a delta.
ApplyDeltaTriggers ==
    [][/\ \A delta \in DeltaInputs :
              applyDelta("src", delta) => Scheduled("src")
       /\ (timeout["src"] /\ ~timeout'["src"]) =>
              /\ BothEvents(emitted'["src"])
              /\ emitted'["src"][1].value = getErrorsLimited(errorsByFilePath'["src"])
              /\ Whole(emitted'["src"][1].value, errorsByFilePath["src"])
              /\ emitted'["src"][1].invoked = Listeners("errorsUpdated")
              /\ emitted'["src"][2].invoked = Listeners("errorsDelta")]_vars

\* an emission of a store that is the baseline merged with a delta that adds
\* and removes
ApplyDeltaTriggersWitness ==
    /\ Fired("src")
    /\ \E delta \in DeltaInputs :
           /\ delta.added # <<>>
           /\ delta.removed # <<>>
           /\ errorsByFilePath["src"] = applyDeltaStore(oldErrorsByFilePath["src"], delta)
    /\ errorsByFilePath["src"] # oldErrorsByFilePath["src"]
    /\ KeyPairs(oldErrorsByFilePath["src"]) # {}
    /\ SentSnapshot("src").errorsByFilePath = errorsByFilePath["src"]

\* C17: on every firing the limited snapshot is emitted on errorsUpdated
\* first, then the delta between the baseline of before the firing and the
\* store is emitted on errorsDelta, and only then the store becomes the
\* baseline; the baseline changes at no other step, so each delta is the
\* difference between the stores of two consecutive firings.
EmissionOrder ==
    [][/\ emitted'["src"] # <<>> =>
              /\ BothEvents(emitted'["src"])
              /\ emitted'["src"][1].value = getErrorsLimited(errorsByFilePath["src"])
              /\ emitted'["src"][2].value
                     = computeDelta(lastErrorsByFilePath["src"], errorsByFilePath["src"])
              /\ KeyPairs(applyDeltaStore(lastErrorsByFilePath["src"],
                                          emitted'["src"][2].value))
                     = KeyPairs(errorsByFilePath["src"])
              /\ oldErrorsByFilePath'["src"] = lastErrorsByFilePath["src"]
              /\ lastErrorsByFilePath'["src"] = errorsByFilePath["src"]
       /\ lastErrorsByFilePath'["src"] # lastErrorsByFilePath["src"] =>
              emitted'["src"] # <<>>]_vars

\* a firing after an earlier one, whose delta tells what changed in two paths
\* since then
EmissionOrderWitness ==
    /\ Fired("src")
    /\ Len(oldErrorsByFilePath["src"]) = 2
    /\ Len(SentDelta("src").added) = 1
    /\ Len(SentDelta("src").removed) = 2
    /\ lastErrorsByFilePath["src"] = errorsByFilePath["src"]

\* the lists an object holds for a key: one, or none when the key is absent
Entry(o, k) == {o[i][2] : i \in {j \in 1..Len(o) : o[j][1] = k}}

\* the list an object holds for a key, empty when the key is absent
ListOf(o, k) == IF Entry(o, k) = {} THEN <<>> ELSE CHOOSE list \in Entry(o, k) : TRUE

\* the diagnostics of a list whose identity key no diagnostic of others has
NotAmong(errors, others) ==
    SelectSeq(errors, LAMBDA e : IdentityKey(e) \notin IdentityKeys(others))

\* d is the symmetric difference, path by path and by identity key, of the
\* stores old and new
ExactDelta(old, new, d) ==
    \A filePath \in QueryPaths :
        LET inOld == Entry(old, filePath) # {}
            inNew == Entry(new, filePath) # {}
        IN /\ ~inNew => Entry(d.added, filePath) = {}
           /\ ~inOld => Entry(d.removed, filePath) = {}
           /\ (inNew /\ ~inOld) => Entry(d.added, filePath) = Entry(new, filePath)
           /\ (inOld /\ ~inNew) => Entry(d.removed, filePath) = Entry(old, filePath)
           /\ (inOld /\ inNew) =>
                  /\ ListOf(d.added, filePath)
                         = NotAmong(ListOf(new, filePath), ListOf(old, filePath))
                  /\ ListOf(d.removed, filePath)
                         = NotAmong(ListOf(old, filePath), ListOf(new, filePath))
                  /\ \A e \in Items(ListOf(d.added, filePath))
                                 \cup Items(ListOf(d.removed, filePath)) :
                         IdentityKey(e) \notin
                             (IdentityKeys(ListOf(old, filePath))
                                  \cap IdentityKeys(ListOf(new, filePath)))

\* C19: the delta of a firing is the per-path symmetric difference by
\* identity key of the baseline and the store: the whole list is added for a
\* path only the store holds and removed for a path only the baseline holds;
\* for a path of both, added holds the new diagnostics whose key no old one
\* has, removed the old diagnostics whose key no new one has, and a
\* diagnostic whose key is on both sides is in neither.
SymmetricDifference ==
    \A c \in Caches :
        Fired(c) => ExactDelta(oldErrorsByFilePath[c], errorsByFilePath[c], SentDelta(c))

\* a delta for a path of both stores with a key on both sides and a new
\* diagnostic, and for a path that only the baseline holds
SymmetricDifferenceWitness ==
    /\ Fired("src")
    /\ IdentityKeys(ListOf(oldErrorsByFilePath["src"], "a.ts"))
           \cap IdentityKeys(ListOf(errorsByFilePath["src"], "a.ts")) # {}
    /\ Entry(SentDelta("src").added, "a.ts") # {}
    /\ Entry(oldErrorsByFilePath["src"], "b.ts") # {}
    /\ Entry(errorsByFilePath["src"], "b.ts") = {}
    /\ ListOf(SentDelta("src").removed, "b.ts") # <<>>

\* the sum of the lengths, each capped at 50, of the lists before the i-th
RECURSIVE CappedBefore(_, _)
CappedBefore(store, i) ==
    IF i <= 1 THEN 0
    ELSE CappedBefore(store, i - 1) + Smaller(50, Len(store[i - 1][2]))

\* C20: getErrorsLimited walks the paths of the store in insertion order and
\* includes a file, capped at 50, exactly when the capped lengths of the files
\* before it sum to at most 200: the file at which the running total first
\* exceeds 200 is included, every later file is absent, and the included paths
\* are a prefix of the store's paths.
PrefixRule ==
    LET store == errorsByFilePath["src"]
        view == Limited("src").errorsByFilePath
    IN /\ \A i \in 1..Len(store) :
              (Entry(view, store[i][1]) # {}) <=> (CappedBefore(store, i) <= 200)
       /\ IsPrefix(Keys(view), Keys(store))
       /\ \A i \in 1..Len(view) :
              view[i][2] = FirstOf(store[i][2], Smaller(50, Len(store[i][2])))
       /\ Len(view) < Len(store) => CappedBefore(store, Len(view) + 1) > 200
       /\ Limited("src").syncCount = CappedBefore(store, Len(view) + 1)

\* a store whose first four files sum to 200 exactly, whose fifth file is cut
\* to 50 and included, and whose sixth file is left out
PrefixRuleWitness ==
    /\ Len(errorsByFilePath["src"]) = 6
    /\ CappedBefore(errorsByFilePath["src"], 5) = 200
    /\ Len(errorsByFilePath["src"][5][2]) > 50
    /\ Len(Limited("src").errorsByFilePath) = 5
    /\ Fired("src")
    /\ Len(SentSnapshot("src").errorsByFilePath) = 5

(***************************************************************************)
(* A client that asks for the diagnostics of a file between the calls of   *)
(* the producer.                                                           *)
(***************************************************************************)
\* a query that leaves the list it returns in the store
GetErrorsForFilePathCreating ==
    /\ \E filePath \in QueryPaths :
           LET value == getErrorsForFilePath(errorsByFilePath["src"], filePath)
           IN /\ returned' = [filePath |-> filePath, value |-> value]
              /\ errorsByFilePath' =
                     [errorsByFilePath EXCEPT
                          !["src"] = Put(errorsByFilePath["src"], filePath, value)]
    /\ Silent
    /\ UNCHANGED <<lastErrorsByFilePath, timeout, elapsed, channel, wired, heap, refs>>
    /\ UNCHANGED host

\* getErrorsForFilePath, lines 180-182, called on the source cache
GetErrorsForFilePath ==
    /\ \E filePath \in QueryPaths :
           returned' = [filePath |-> filePath,
                        value |-> getErrorsForFilePath(errorsByFilePath["src"], filePath)]
    /\ Silent
    /\ UNCHANGED <<errorsByFilePath, lastErrorsByFilePath, timeout, elapsed, channel,
                   wired, heap, refs>>
    /\ UNCHANGED host

NextQuery ==
    \/ SetErrors
    \/ ClearErrors
    \/ ClearErrorsForFilePath
    \/ ApplyDelta
    \/ TickSrc
    \/ FireSrc
    \/ GetErrorsForFilePath

SpecQuery == Init /\ [][NextQuery]_vars

\* C14: getErrorsForFilePath(path) returns the list stored for path, the
\* empty sequence when the store has no entry for it; it returns for every
\* path in every state, and the call changes neither the store, nor the
\* baseline, nor the pending emission.
QueryIsPure ==
    [][/\ ENABLED GetErrorsForFilePath
       /\ returned' # NoResult =>
              LET store == errorsByFilePath["src"]
                  filePath == returned'.filePath
              IN /\ \A i \in 1..Len(store) :
                        store[i][1] = filePath => returned'.value = store[i][2]
                 /\ (\A i \in 1..Len(store) : store[i][1] # filePath) =>
                        returned'.value = <<>>
                 /\ UNCHANGED <<errorsByFilePath, lastErrorsByFilePath, timeout, elapsed>>
                 /\ emitted' = NoEvents]_vars

\* a query for a path the store has no entry for, made while the store holds
\* diagnostics and an emission is pending
QueryIsPureWitness ==
    /\ returned # NoResult
    /\ returned.filePath = "c.ts"
    /\ returned.value = <<>>
    /\ KeyPairs(errorsByFilePath["src"]) # {}
    /\ timeout["src"]
    /\ elapsed["src"] = 1

\* a delta that only removes, and none of whose removed entries matches: its
\* path is absent from the store of cache c, or no diagnostic of the stored
\* list has the identity key of a removed one
Malformed(c, delta) ==
    /\ delta.added = <<>>
    /\ delta.removed # <<>>
    /\ \A i \in 1..Len(delta.removed) :
           IdentityKeys(delta.removed[i][2])
               \cap IdentityKeys(getErrorsForFilePath(errorsByFilePath[c],
                                                      delta.removed[i][1])) = {}

\* the answers of getErrorsForFilePath for a store
Answers(store) == [filePath \in QueryPaths |-> getErrorsForFilePath(store, filePath)]

\* C15: applyDelta with removed entries that match no diagnostic of the target
\* list, or whose path the target does not hold, gives a store for every such
\* delta in every reachable state, and getErrorsForFilePath returns for every
\* path the sequence it returned before.
MalformedTolerated ==
    [][\A delta \in DeltaInputs :
           Malformed("src", delta) =>
               /\ Answers(applyDeltaStore(errorsByFilePath["src"], delta))
                      = Answers(errorsByFilePath["src"])
               /\ applyDelta("src", delta) =>
                      Answers(errorsByFilePath'["src"]) = Answers(errorsByFilePath["src"])]_vars

\* a store that holds a diagnostic for a.ts and an empty list for b.ts, made
\* by a removal for b.ts that matched nothing
MalformedToleratedWitness ==
    /\ errorsByFilePath["src"] = <<<<"a.ts", <<e1>>>>, <<"b.ts", <<>>>>>>
    /\ lastErrorsByFilePath["src"] = <<<<"a.ts", <<e1>>>>>>
    /\ Malformed("src", [added |-> <<>>, removed |-> Obj("a.ts", <<e3>>)])
    /\ timeout["src"]
    /\ elapsed["src"] = 0

(***************************************************************************)
(* Subscribers that fail while they are told of an emission.               *)
(***************************************************************************)
\* who fails during a run: one subscriber, one of each event, or all
FailureCases ==
    {{"u1"}, {"u2"}, {"d1"}, {"d2"}, {"u1", "d1"}, Subscribers}

FireFailing ==
    /\ \E failing \in FailureCases : Run("src", failing)
    /\ Plain

NextSubscribers ==
    \/ SetErrors
    \/ ClearErrors
    \/ ClearErrorsForFilePath
    \/ ApplyDelta
    \/ TickSrc
    \/ FireSrc
    \/ FireFailing

SpecSubscribers == Init /\ [][NextSubscribers]_vars

\* C16: a subscriber that fails during an emission is isolated. Whoever
\* fails, every subscriber of errorsUpdated is invoked in subscription order,
\* the delta event is emitted after it and every subscriber of errorsDelta
\* is invoked in subscription order, the baseline becomes the store, and the
\* store is as it was.
SubscriberIsolation ==
    [][emitted'["src"] # <<>> =>
           /\ BothEvents(emitted'["src"])
           /\ emitted'["src"][1].invoked = <<"u1", "u2">>
           /\ emitted'["src"][2].invoked = <<"d1", "d2">>
           /\ emitted'["src"][2].value
                  = computeDelta(lastErrorsByFilePath["src"], errorsByFilePath["src"])
           /\ lastErrorsByFilePath'["src"] = errorsByFilePath["src"]
           /\ errorsByFilePath'["src"] = errorsByFilePath["src"]
           /\ ~timeout'["src"]]_vars

\* an emission of a changed store during which the first subscriber of each
\* event failed
SubscriberIsolationWitness ==
    /\ Fired("src")
    /\ emitted["src"][1].failed = {"u1"}
    /\ emitted["src"][1].invoked = <<"u1", "u2">>
    /\ Len(emitted["src"]) = 2
    /\ emitted["src"][2].failed = {"d1"}
    /\ lastErrorsByFilePath["src"] = errorsByFilePath["src"]
    /\ oldErrorsByFilePath["src"] # errorsByFilePath["src"]
    /\ KeyPairs(oldErrorsByFilePath["src"]) # {}

(***************************************************************************)
(* The arrays behind the lists.  The lists of a store, of a baseline and   *)
(* of a delta are JavaScript arrays, held by reference: heap is the arrays *)
(* created so far, refs the array each cache holds for each path of its    *)
(* store and of its baseline, and the deltas in flight name the arrays     *)
(* they carry.  errorsByFilePath and lastErrorsByFilePath are what the     *)
(* caches see through their references.                                    *)
(***************************************************************************)
\* the lists the arrays of an object hold
Deref(h, obj) == [i \in 1..Len(obj) |-> <<obj[i][1], h[obj[i][2]]>>]

\* a new array
Alloc(h, list) == [heap |-> Append(h, list), id |-> Len(h) + 1]

\* a concat that appends to the array it is called on
push(h, id, other) == [heap |-> [h EXCEPT ![id] = h[id] \o h[other]], id |-> id]

\* Array.prototype.concat, line 31: a new array
concat(h, id, other) == Alloc(h, h[id] \o h[other])

\* applyDelta, lines 29-32: an absent path takes the array of the delta
RECURSIVE heapApplyAdded(_, _, _)
heapApplyAdded(h, store, added) ==
    IF added = <<>> THEN [heap |-> h, obj |-> store]
    ELSE LET fp == added[1][1]
             id == added[1][2]
         IN IF ~Has(store, fp)
            THEN heapApplyAdded(h, Put(store, fp, id), Tail(added))
            ELSE LET r == concat(h, Get(store, fp), id)
                 IN heapApplyAdded(r.heap, Put(store, fp, r.id), Tail(added))

\* applyDelta, lines 34-37: filter gives a new array
RECURSIVE heapApplyRemoved(_, _, _)
heapApplyRemoved(h, store, removed) ==
    IF removed = <<>> THEN [heap |-> h, obj |-> store]
    ELSE LET fp == removed[1][1]
             removedErrorsMap == errorKeyLookup(h[removed[1][2]])
             current == IF Has(store, fp) THEN h[Get(store, fp)] ELSE <<>>
             r == Alloc(h, SelectSeq(current,
                                     LAMBDA e : errorKey(e) \notin removedErrorsMap))
         IN heapApplyRemoved(r.heap, Put(store, fp, r.id), Tail(removed))

heapApplyDelta(h, store, delta) ==
    LET a == heapApplyAdded(h, store, delta.added)
    IN heapApplyRemoved(a.heap, a.obj, delta.removed)

\* sendErrors, lines 68-87: a path the baseline lacks gives its array to the
\* delta, another path a new array when a diagnostic is new
RECURSIVE heapDeltaAdded(_, _, _, _, _)
heapDeltaAdded(h, added, old, new, i) ==
    IF i > Len(new) THEN [heap |-> h, obj |-> added]
    ELSE LET filePath == new[i][1]
             id == new[i][2]
         IN IF ~Has(old, filePath)
            THEN heapDeltaAdded(h, Put(added, filePath, id), old, new, i + 1)
            ELSE LET oldErrorMap == errorKeyLookup(h[Get(old, filePath)])
                     fresh == SelectSeq(h[id], LAMBDA ne : errorKey(ne) \notin oldErrorMap)
                     r == Alloc(h, fresh)
                 IN IF fresh = <<>> THEN heapDeltaAdded(h, added, old, new, i + 1)
                    ELSE heapDeltaAdded(r.heap, Put(added, filePath, r.id), old, new, i + 1)

\* sendErrors, lines 90-109
RECURSIVE heapDeltaRemoved(_, _, _, _, _)
heapDeltaRemoved(h, removed, old, new, i) ==
    IF i > Len(old) THEN [heap |-> h, obj |-> removed]
    ELSE LET filePath == old[i][1]
             id == old[i][2]
         IN IF ~Has(new, filePath)
            THEN heapDeltaRemoved(h, Put(removed, filePath, id), old, new, i + 1)
            ELSE LET newErrorMap == errorKeyLookup(h[Get(new, filePath)])
                     gone == SelectSeq(h[id], LAMBDA oe : errorKey(oe) \notin newErrorMap)
                     r == Alloc(h, gone)
                 IN IF gone = <<>> THEN heapDeltaRemoved(h, removed, old, new, i + 1)
                    ELSE heapDeltaRemoved(r.heap, Put(removed, filePath, r.id),
                                          old, new, i + 1)

\* setErrorsByFilePaths, lines 125-138: a path whose list the call assigns
\* holds a new array, another path keeps its array
RECURSIVE heapAssign(_, _, _, _, _)
heapAssign(h, obj, old, values, i) ==
    IF i > Len(values) THEN [heap |-> h, obj |-> obj]
    ELSE LET filePath == values[i][1]
             r == Alloc(h, values[i][2])
         IN IF Has(old, filePath) /\ h[Get(old, filePath)] = values[i][2]
            THEN heapAssign(h, Put(obj, filePath, Get(old, filePath)), old, values, i + 1)
            ELSE heapAssign(r.heap, Put(obj, filePath, r.id), old, values, i + 1)

\* the arrays of a delta that comes from elsewhere
RECURSIVE heapReceive(_, _, _, _)
heapReceive(h, obj, values, i) ==
    IF i > Len(values) THEN [heap |-> h, obj |-> obj]
    ELSE LET r == Alloc(h, values[i][2])
         IN heapReceive(r.heap, Put(obj, values[i][1], r.id), values, i + 1)

\* the caches see the lists of the arrays they hold
Synced ==
    /\ errorsByFilePath' =
           [c \in Caches |-> Deref(heap', refs'[c].errorsByFilePath)]
    /\ lastErrorsByFilePath' =
           [c \in Caches |-> Deref(heap', refs'[c].lastErrorsByFilePath)]

HeapCalls == {Call(<<"a.ts">>, <<e1>>)}

HeapDeltas ==
    {[added |-> Obj("a.ts", <<e3>>), removed |-> <<>>],
     [added |-> <<>>, removed |-> Obj("a.ts", <<e1>>)]}

InitHeap ==
    /\ errorsByFilePath = NoEvents
    /\ lastErrorsByFilePath = NoEvents
    /\ timeout = [c \in Caches |-> FALSE]
    /\ elapsed = [c \in Caches |-> 0]
    /\ emitted = NoEvents
    /\ oldErrorsByFilePath = NoEvents
    /\ channel = <<>>
    /\ wired = TRUE
    /\ returned = NoResult
    /\ heap = <<>>
    /\ refs = NoRefs
    /\ HostInit

\* setErrorsByFilePaths, lines 120-143
HeapSetErrors(c) ==
    \E call \in HeapCalls :
        LET store == refs[c].errorsByFilePath
            r == setErrorsResult(Deref(heap, store), call.filePaths, call.errors)
            m == heapAssign(heap, <<>>, store, r.store, 1)
        IN /\ Len(m.heap) <= MaxHeap
           /\ heap' = m.heap
           /\ refs' = [refs EXCEPT ![c].errorsByFilePath = m.obj]
           /\ IF r.somethingNew THEN sendErrors(c) ELSE UNCHANGED <<timeout, elapsed>>
           /\ Synced
           /\ Silent
           /\ returned' = NoResult
           /\ UNCHANGED host
           /\ UNCHANGED <<channel, wired>>

\* clearErrors, lines 168-171
HeapClearErrors(c) ==
    /\ heap' = heap
    /\ refs' = [refs EXCEPT ![c].errorsByFilePath = <<>>]
    /\ sendErrors(c)
    /\ Synced
    /\ Silent
    /\ returned' = NoResult
    /\ UNCHANGED host
    /\ UNCHANGED <<channel, wired>>

\* clearErrorsForFilePath, lines 174-177
HeapClearErrorsForFilePath(c) ==
    LET r == Alloc(heap, <<>>)
    IN /\ Len(r.heap) <= MaxHeap
       /\ heap' = r.heap
       /\ refs' = [refs EXCEPT
                       ![c].errorsByFilePath = Put(refs[c].errorsByFilePath, "a.ts", r.id)]
       /\ sendErrors(c)
       /\ Synced
       /\ Silent
       /\ returned' = NoResult
       /\ UNCHANGED host
       /\ UNCHANGED <<channel, wired>>

\* the body of sendErrors, lines 56-117; the delta of the source travels to
\* the mirror
HeapFire(c) ==
    LET old == refs[c].lastErrorsByFilePath
        new == refs[c].errorsByFilePath
        a == heapDeltaAdded(heap, <<>>, old, new, 1)
        r == heapDeltaRemoved(a.heap, <<>>, old, new, 1)
        delta == [added |-> a.obj, removed |-> r.obj]
    IN /\ timeout[c]
       /\ elapsed[c] = WaitTicks
       /\ c = "src" => Len(channel) < MaxChannel
       /\ Len(r.heap) <= MaxHeap
       /\ heap' = r.heap
       /\ refs' = [refs EXCEPT ![c].lastErrorsByFilePath = new]
       /\ channel' = IF c = "src" THEN Append(channel, delta) ELSE channel
       /\ emitted' =
              [NoEvents EXCEPT
                   ![c] = <<emit("errorsUpdated", getErrorsLimited(Deref(heap, new)), {}),
                            emit("errorsDelta",
                                 [added |-> Deref(r.heap, delta.added),
                                  removed |-> Deref(r.heap, delta.removed)], {})>>]
       /\ oldErrorsByFilePath' = [NoEvents EXCEPT ![c] = lastErrorsByFilePath[c]]
       /\ timeout' = [timeout EXCEPT ![c] = FALSE]
       /\ elapsed' = [elapsed EXCEPT ![c] = 0]
       /\ Synced
       /\ returned' = NoResult
       /\ UNCHANGED host
       /\ UNCHANGED wired

HeapTick(c) == Tick(c) /\ Plain

\* applyDelta of the mirror, lines 27-39, with the oldest delta in flight
HeapDeliver ==
    LET m == heapApplyDelta(heap, refs["mirror"].errorsByFilePath, Head(channel))
    IN /\ channel # <<>>
       /\ Len(m.heap) <= MaxHeap
       /\ heap' = m.heap
       /\ refs' = [refs EXCEPT !["mirror"].errorsByFilePath = m.obj]
       /\ channel' = Tail(channel)
       /\ sendErrors("mirror")
       /\ Synced
       /\ Silent
       /\ returned' = NoResult
       /\ UNCHANGED host
       /\ UNCHANGED wired

\* applyDelta of the mirror, lines 27-39, with a delta from elsewhere
HeapApplyDelta ==
    \E delta \in HeapDeltas :
        LET a == heapReceive(heap, <<>>, delta.added, 1)
            r == heapReceive(a.heap, <<>>, delta.removed, 1)
            m == heapApplyDelta(r.heap, refs["mirror"].errorsByFilePath,
                                [added |-> a.obj, removed |-> r.obj])
        IN /\ Len(m.heap) <= MaxHeap
           /\ heap' = m.heap
           /\ refs' = [refs EXCEPT !["mirror"].errorsByFilePath = m.obj]
           /\ sendErrors("mirror")
           /\ Synced
           /\ Silent
           /\ returned' = NoResult
           /\ UNCHANGED host
           /\ UNCHANGED <<channel, wired>>

SetErrorsOfSource == HeapSetErrors("src")

ClearErrorsOfSource == HeapClearErrors("src")

ClearErrorsForFilePathOfMirror == HeapClearErrorsForFilePath("mirror")

FireOfSource == HeapFire("src")

FireOfMirror == HeapFire("mirror")

TickOfSource == HeapTick("src")

TickOfMirror == HeapTick("mirror")

NextHeap ==
    \/ SetErrorsOfSource
    \/ ClearErrorsOfSource
    \/ ClearErrorsForFilePathOfMirror
    \/ FireOfSource
    \/ FireOfMirror
    \/ TickOfSource
    \/ TickOfMirror
    \/ HeapDeliver
    \/ HeapApplyDelta

SpecHeap == InitHeap /\ [][NextHeap]_vars

\* what a cache holds: its store, its baseline and its pending emission
View(c) == <<errorsByFilePath[c], lastErrorsByFilePath[c], timeout[c], elapsed[c]>>

\* the step is a call, a tick or a firing of cache c
StepOf(c) ==
    \/ HeapSetErrors(c)
    \/ HeapClearErrors(c)
    \/ HeapClearErrorsForFilePath(c)
    \/ HeapFire(c)
    \/ HeapTick(c)
    \/ c = "mirror" /\ (HeapDeliver \/ HeapApplyDelta)

\* C18: two cache instances are independent. A call, a tick or a firing of
\* one instance, the applyDelta of a delta that came from the other
\* included, leaves the store, the baseline and the pending emission of the
\* other as they were; so a mutation of the mirror does not reach the source
\* through an array that applyDelta stored without a copy.
Independence ==
    [][\A c \in Caches :
           StepOf(c) => \A other \in Caches \ {c} : View(other)' = View(other)]_vars

\* the mirror holds for a.ts the very array the source holds in its store and
\* in its baseline, and has since merged a delta that adds to a.ts
IndependenceWitness ==
    /\ Has(refs["src"].errorsByFilePath, "a.ts")
    /\ Has(refs["src"].lastErrorsByFilePath, "a.ts")
    /\ Has(refs["mirror"].errorsByFilePath, "a.ts")
    /\ Get(refs["src"].errorsByFilePath, "a.ts")
           = Get(refs["src"].lastErrorsByFilePath, "a.ts")
    /\ Len(ListOf(errorsByFilePath["src"], "a.ts")) = 1
    /\ Len(ListOf(errorsByFilePath["mirror"], "a.ts")) = 2
    /\ ListOf(errorsByFilePath["mirror"], "a.ts")[1]
           = ListOf(errorsByFilePath["src"], "a.ts")[1]
    /\ timeout["mirror"]

(***************************************************************************)
(* The counts of the limited view.                                         *)
(***************************************************************************)
\* C21: in every result of getErrorsLimited, and in every emitted snapshot,
\* totalCount is the sum of the lengths of all the lists of the store, uncut,
\* and syncCount is the sum of the lengths of the lists of errorsByFilePath.
CountsAreSums ==
    /\ SnapshotIsLimited("src")
    /\ Limited("src").totalCount
           = SumFirst(errorsByFilePath["src"], Len(errorsByFilePath["src"]))
    /\ Limited("src").syncCount
           = SumFirst(Limited("src").errorsByFilePath,
                      Len(Limited("src").errorsByFilePath))

\* an emitted snapshot of a store with a list of more than 50 diagnostics that
\* is cut in the view and a file that is left out of it
CountsAreSumsWitness ==
    /\ Fired("src")
    /\ \E i \in 1..Len(SentSnapshot("src").errorsByFilePath) :
           Len(errorsByFilePath["src"][i][2]) > Len(SentSnapshot("src").errorsByFilePath[i][2])
    /\ Len(SentSnapshot("src").errorsByFilePath) < Len(errorsByFilePath["src"])
    /\ SentSnapshot("src").syncCount < SentSnapshot("src").totalCount

(***************************************************************************)
(* The store after a call of setErrorsByFilePaths.                         *)
(***************************************************************************)
\* the diagnostics of the batch for a path, in batch order
BatchOf(errors, filePath) == SelectSeq(errors, LAMBDA e : e.filePath = filePath)

\* the store after the call, path by path
StoreAfterCall(before, after, call) ==
    \A filePath \in QueryPaths :
        IF BatchOf(call.errors, filePath) # <<>>
        THEN Entry(after, filePath) = {BatchOf(call.errors, filePath)}
        ELSE IF Listed(call.filePaths, filePath) /\ ListOf(before, filePath) # <<>>
        THEN Entry(after, filePath) = {<<>>}
        ELSE Entry(after, filePath) = Entry(before, filePath)

\* C22: after setErrorsByFilePaths(filePaths, diagnostics) every path with
\* diagnostics in the batch holds exactly those, in batch order, listed in
\* filePaths or not; a listed path without diagnostics that held a non-empty
\* list holds []; a listed path without diagnostics that was absent stays
\* absent; every other path is as it was.
SetErrorsPostcondition ==
    [][\A call \in Calls :
           setErrorsByFilePaths("src", call.filePaths, call.errors) =>
               /\ StoreAfterCall(errorsByFilePath["src"], errorsByFilePath'["src"], call)
               /\ \A i \in 1..Len(errorsByFilePath'["src"]) :
                      errorsByFilePath'["src"][i][1] \in QueryPaths]_vars

\* the scenario's call on a store that holds a.ts only: a.ts is replaced and
\* b.ts, listed without diagnostics, is still absent
SetErrorsPostconditionWitness ==
    /\ AsMap(errorsByFilePath["src"]) = {<<"a.ts", <<e3>>>>}
    /\ AsMap(lastErrorsByFilePath["src"]) = {<<"a.ts", <<e1>>>>}
    /\ timeout["src"]
    /\ elapsed["src"] = 0

(***************************************************************************)
(* A diagnostic replaced by one of its own identity.                       *)
(***************************************************************************)
\* the producer reports a.ts again and again: with e1, with e1x, whose range
\* ends elsewhere, with an unrelated diagnostic beside it, or clean
ReplaceCalls ==
    {Call(<<"a.ts">>, <<e1>>), Call(<<"a.ts">>, <<e1x>>), Call(<<"a.ts">>, <<e1x, e3>>),
     Call(<<"a.ts">>, <<>>)}

ReportAgain ==
    /\ \E call \in ReplaceCalls : setErrorsByFilePaths("src", call.filePaths, call.errors)
    /\ Plain

NextReplace ==
    \/ ReportAgain
    \/ TickSrc
    \/ FireSrc
    \/ Deliver

SpecReplace == InitMirror /\ [][NextReplace]_vars

\* the call replaces, at filePath, the diagnostic old by the diagnostic new of
\* the same identity
Replaces(call, filePath, old, new) ==
    /\ setErrorsByFilePaths("src", call.filePaths, call.errors)
    /\ old \in Items(ListOf(errorsByFilePath["src"], filePath))
    /\ old \notin Items(ListOf(errorsByFilePath'["src"], filePath))
    /\ new \in Items(ListOf(errorsByFilePath'["src"], filePath))
    /\ IdentityKey(old) = IdentityKey(new)
    /\ old # new

\* the store changed, the emission is scheduled, and the delta of a firing
\* that follows at once lists neither diagnostic at filePath
SilentInDelta(filePath, old, new) ==
    /\ errorsByFilePath'["src"] # errorsByFilePath["src"]
    /\ Scheduled("src")
    /\ new \notin Items(ListOf(NextDelta.added, filePath))
    /\ old \notin Items(ListOf(NextDelta.removed, filePath))

\* the diagnostics of an identity that a store holds at filePath
OfIdentity(store, filePath, key) ==
    SelectSeq(ListOf(store, filePath), LAMBDA e : IdentityKey(e) = key)

\* the store of the mirror once it has applied the deltas in flight
MirrorSoon == applyAll(errorsByFilePath["mirror"], channel)

\* C23 as stated: when setErrorsByFilePaths replaces a diagnostic by one of
\* the same (from.line, from.ch, message) at the same path, the store is
\* updated, an emission is triggered and the emitted delta lists the
\* diagnostic neither in added nor in removed.
ReplacementIsSilent ==
    [][\A call \in ReplaceCalls, old \in {e1, e1x}, new \in {e1, e1x} :
           Replaces(call, "a.ts", old, new) => SilentInDelta("a.ts", old, new)]_vars

\* C23 amended: when setErrorsByFilePaths replaces a diagnostic by one of the
\* same identity at the same path, the store is updated and an emission is
\* triggered; when the baseline holds a diagnostic of that identity at the
\* path, the emitted delta lists the diagnostic neither in added nor in
\* removed, and a mirror that applies the delta keeps the diagnostics of that
\* identity it held.
ReplacementIsSilentOnceSent ==
    [][\A call \in ReplaceCalls, old \in {e1, e1x}, new \in {e1, e1x} :
           Replaces(call, "a.ts", old, new) =>
               /\ errorsByFilePath'["src"] # errorsByFilePath["src"]
               /\ Scheduled("src")
               /\ OfIdentity(lastErrorsByFilePath["src"], "a.ts", IdentityKey(old)) # <<>>
                      => /\ SilentInDelta("a.ts", old, new)
                         /\ OfIdentity(applyDeltaStore(MirrorSoon, NextDelta), "a.ts",
                                       IdentityKey(old))
                                = OfIdentity(MirrorSoon, "a.ts", IdentityKey(old))]_vars

\* the source replaced e1 by e1x, emitted, and the mirror, which applied every
\* delta, still holds e1
ReplacementWitness ==
    /\ ListOf(errorsByFilePath["src"], "a.ts") = <<e1x>>
    /\ lastErrorsByFilePath["src"] = errorsByFilePath["src"]
    /\ ~timeout["src"]
    /\ channel = <<>>
    /\ ListOf(errorsByFilePath["mirror"], "a.ts") = <<e1>>

(***************************************************************************)
(* What writes the store and the baseline.  A client calls the two queries *)
(* between the calls of the producer.                                      *)
(***************************************************************************)
\* getErrorsLimited, lines 149-163, called on the source cache
GetErrorsLimited ==
    /\ returned' = [call |-> "getErrorsLimited",
                    value |-> getErrorsLimited(errorsByFilePath["src"])]
    /\ Silent
    /\ UNCHANGED <<errorsByFilePath, lastErrorsByFilePath, timeout, elapsed, channel,
                   wired, heap, refs>>
    /\ UNCHANGED host

\* getErrorsForFilePath, lines 180-182, called on the source cache for a.ts
GetErrorsForFile ==
    /\ returned' = [filePath |-> "a.ts",
                    value |-> getErrorsForFilePath(errorsByFilePath["src"], "a.ts")]
    /\ Silent
    /\ UNCHANGED <<errorsByFilePath, lastErrorsByFilePath, timeout, elapsed, channel,
                   wired, heap, refs>>
    /\ UNCHANGED host

NextFrame ==
    \/ SetErrors
    \/ ClearErrors
    \/ ClearErrorsForFilePath
    \/ ApplyDelta
    \/ TickSrc
    \/ FireSrc
    \/ GetErrorsLimited
    \/ GetErrorsForFile

SpecFrame == Init /\ [][NextFrame]_vars

\* the step is a call of one of the four operations that write the store
Mutation == SetErrors \/ ClearErrors \/ ClearErrorsForFilePath \/ ApplyDelta

\* the step is a call of one of the two queries
Query == GetErrorsLimited \/ GetErrorsForFile

\* C24: the baseline is empty at construction and is changed only by a
\* firing of the emission routine, which has emitted the delta from the old
\* baseline to the store and leaves the store as the baseline;
\* setErrorsByFilePaths, applyDelta, clearErrors, clearErrorsForFilePath,
\* getErrorsLimited and getErrorsForFilePath leave the baseline unchanged, and
\* only the first four change the store.
BaselineFrame ==
    /\ lastErrorsByFilePath = NoEvents
    /\ errorsByFilePath = NoEvents
    /\ [][/\ lastErrorsByFilePath' # lastErrorsByFilePath =>
                 /\ FireSrc
                 /\ ~(Mutation \/ Query)
                 /\ BothEvents(emitted'["src"])
                 /\ emitted'["src"][2].value
                        = computeDelta(lastErrorsByFilePath["src"], errorsByFilePath["src"])
                 /\ lastErrorsByFilePath'["src"] = errorsByFilePath["src"]
          /\ errorsByFilePath' # errorsByFilePath => Mutation /\ ~Query]_vars

\* getErrorsLimited has just returned while the store, after a firing and a
\* later call, differs from a baseline that holds diagnostics
BaselineFrameWitness ==
    /\ returned # NoResult
    /\ "call" \in DOMAIN returned
    /\ KeyPairs(lastErrorsByFilePath["src"]) # {}
    /\ KeyPairs(errorsByFilePath["src"]) # KeyPairs(lastErrorsByFilePath["src"])
    /\ timeout["src"]

(***************************************************************************)
(* The timers behind the debounce of sendErrors.  The host keeps, for each *)
(* cache, the timers it was asked to run, each with the ticks it still has *)
(* to wait; timeout and elapsed are what the cache knows of them.          *)
(***************************************************************************)
\* a debounce that sets its timer beside the pending one
debounceLeaking(queue) == Append(queue, WaitTicks)

\* clearTimeout of the timer the debounce set last, if it is still pending
clearTimeout(queue) == IF queue = <<>> THEN queue ELSE SubSeq(queue, 1, Len(queue) - 1)

\* a call of the debounced function: the pending timer is replaced
debounce(queue) == Append(clearTimeout(queue), WaitTicks)

\* the step is a call of the debounced sendErrors of the source
Debounced == timers' = [timers EXCEPT !["src"] = debounce(timers["src"])]

\* a step of the runs that follow the timers: no query returns in it and the
\* arrays are not told apart
OnTimers ==
    /\ returned' = NoResult
    /\ UNCHANGED <<heap, refs, budget, producer, piped>>

TimedSetErrors ==
    \E call \in Calls :
        /\ setErrorsByFilePaths("src", call.filePaths, call.errors)
        /\ IF setErrorsResult(errorsByFilePath["src"], call.filePaths,
                              call.errors).somethingNew
           THEN Debounced ELSE UNCHANGED timers
        /\ OnTimers

TimedClearErrors == clearErrors("src") /\ Debounced /\ OnTimers

TimedClearErrorsForFilePath ==
    /\ \E filePath \in Paths : clearErrorsForFilePath("src", filePath)
    /\ Debounced
    /\ OnTimers

TimedApplyDelta ==
    \E delta \in DeltaInputs :
        /\ Short(applyDeltaStore(errorsByFilePath["src"], delta))
        /\ applyDelta("src", delta)
        /\ Debounced
        /\ UNCHANGED channel
        /\ OnTimers

\* a tick passes for every timer of the source, none of which is due
TimedTick ==
    /\ Tick("src")
    /\ \A i \in 1..Len(timers["src"]) : timers["src"][i] > 0
    /\ timers' = [timers EXCEPT
                      !["src"] = [i \in 1..Len(timers["src"]) |-> timers["src"][i] - 1]]
    /\ OnTimers

\* the host runs the body of sendErrors for the first timer that is due
TimedFire ==
    /\ \E i \in 1..Len(timers["src"]) :
           /\ timers["src"][i] = 0
           /\ \A j \in 1..(i - 1) : timers["src"][j] # 0
           /\ timers' = [timers EXCEPT
                             !["src"] = SubSeq(timers["src"], 1, i - 1)
                                            \o SubSeq(timers["src"], i + 1,
                                                      Len(timers["src"]))]
    /\ Fire("src")
    /\ OnTimers

NextTimers ==
    \/ TimedSetErrors
    \/ TimedClearErrors
    \/ TimedClearErrorsForFilePath
    \/ TimedApplyDelta
    \/ TimedTick
    \/ TimedFire

SpecTimers == Init /\ [][NextTimers]_vars

\* C25: a cache has at most one pending emission timer at every moment, and
\* it is the one the cache knows as pending; a triggering call that finds a
\* timer pending replaces it by a new one with the whole window to wait; and
\* a pending emission ends only by firing, with both events emitted: no
\* operation cancels it.
SingleTimer ==
    [][/\ Len(timers'["src"]) <= 1
       /\ timeout'["src"] <=> timers'["src"] # <<>>
       /\ timeout'["src"] => timers'["src"][1] = WaitTicks - elapsed'["src"]
       /\ (timers["src"] # <<>> /\ Debounced) => timers'["src"] = <<WaitTicks>>
       /\ (timeout["src"] /\ ~timeout'["src"]) =>
              /\ TimedFire
              /\ BothEvents(emitted'["src"])]_vars

\* a timer with the whole window to wait while the store, after an emission,
\* has changed again
SingleTimerWitness ==
    /\ timers["src"] = <<WaitTicks>>
    /\ KeyPairs(lastErrorsByFilePath["src"]) # {}
    /\ errorsByFilePath["src"] # lastErrorsByFilePath["src"]
    /\ Len(errorsByFilePath["src"]) = 2

(***************************************************************************)
(* A producer that stops: it makes at most MaxCalls calls.  The host runs  *)
(* its timers: time passes while a timer waits, and the body runs when the *)
(* window has elapsed.                                                     *)
(***************************************************************************)
LiveCalls ==
    {Call(<<"a.ts">>, <<e1>>), Call(<<"b.ts">>, <<e2>>), Call(<<"a.ts", "b.ts">>, <<e3>>)}

InitLive ==
    /\ errorsByFilePath = NoEvents
    /\ lastErrorsByFilePath = NoEvents
    /\ timeout = [c \in Caches |-> FALSE]
    /\ elapsed = [c \in Caches |-> 0]
    /\ emitted = NoEvents
    /\ oldErrorsByFilePath = NoEvents
    /\ channel = <<>>
    /\ wired = FALSE
    /\ returned = NoResult
    /\ heap = <<>>
    /\ refs = NoRefs
    /\ timers = NoTimers
    /\ budget = MaxCalls
    /\ piped = {}
    /\ ProducerInit

\* a call of the producer
Spent ==
    /\ budget > 0
    /\ budget' = budget - 1
    /\ returned' = NoResult
    /\ UNCHANGED <<heap, refs, timers, producer, piped>>

\* a step of the host
Hosted ==
    /\ returned' = NoResult
    /\ UNCHANGED <<heap, refs, timers, budget, producer, piped>>

LiveSetErrors ==
    /\ \E call \in LiveCalls : setErrorsByFilePaths("src", call.filePaths, call.errors)
    /\ Spent

LiveClearErrors == clearErrors("src") /\ Spent

LiveTick == Tick("src") /\ Hosted

LiveFire == Fire("src") /\ Hosted

NextLive ==
    \/ LiveSetErrors
    \/ LiveClearErrors
    \/ LiveTick
    \/ LiveFire

SpecLive == InitLive /\ [][NextLive]_vars /\ WF_vars(LiveTick) /\ WF_vars(LiveFire)

\* the emission has just fired with the limited view of the store, and the
\* store is the baseline
EmittedStore ==
    /\ Fired("src")
    /\ SentSnapshot("src") = Limited("src")
    /\ lastErrorsByFilePath["src"] = errorsByFilePath["src"]
    /\ ~timeout["src"]

\* C26: eventual emission. Once a call has triggered the pipeline the
\* emission fires after the calls have stopped: it emits getErrorsLimited of
\* the final store and leaves that store as the baseline, for good. A
\* triggering call that arrives while the emission is pending postpones it by
\* the whole window and emits nothing, and the emission fires only when a
\* whole window has passed since the last triggering call.
EventualEmission ==
    /\ timeout["src"] ~> EmittedStore
    /\ (timeout["src"] /\ budget = 0) ~> (EmittedStore /\ budget = 0)
    /\ <>[](~timeout["src"] /\ lastErrorsByFilePath["src"] = errorsByFilePath["src"])
    /\ [][/\ (LiveSetErrors \/ LiveClearErrors) =>
                 /\ emitted'["src"] = <<>>
                 /\ (LiveClearErrors \/ errorsByFilePath' # errorsByFilePath)
                        => Scheduled("src")
          /\ emitted'["src"] # <<>> => elapsed["src"] = WaitTicks]_vars

\* the producer has made its last call, the second of a burst, and the
\* emission is pending
EventualEmissionWitness ==
    /\ budget = 0
    /\ timeout["src"]
    /\ elapsed["src"] = 0
    /\ Len(errorsByFilePath["src"]) = 2
    /\ lastErrorsByFilePath["src"] = <<>>

(***************************************************************************)
(* The producer: the active project and its refreshes, lines 185-324.  A   *)
(* project is its list of source files; the language service reports one  *)
(* diagnostic for a file whose contents are broken and none for a clean    *)
(* one.  The three debounce windows are independent and each has its own   *)
(* clock.                                                                  *)
(***************************************************************************)
Projects == {"p1", "p2"}

\* currentProject.getFilePaths()
getFilePaths(project) == IF project = "p1" THEN <<"a.ts", "b.ts">> ELSE <<"b.ts">>

\* currentProject.includesSourceFile(filePath)
includesSourceFile(project, filePath) ==
    \E i \in 1..Len(getFilePaths(project)) : getFilePaths(project)[i] = filePath

\* GetProject.ifCurrent, lines 320-324: the current project when it holds the
\* file, read as a condition
ifCurrent(filePath) ==
    currentProject # NoProject /\ includesSourceFile(currentProject, filePath)

\* proj.getDiagnosticsForFile(filePath).map(diagnosticToCodeError)
getDiagnosticsForFile(held, filePath) ==
    IF held[filePath] = "broken"
    THEN <<IF filePath = "a.ts" THEN e1 ELSE e2>>
    ELSE <<>>

\* currentProject.getDiagnostics().map(diagnosticToCodeError)
RECURSIVE getDiagnostics(_, _)
getDiagnostics(held, filePaths) ==
    IF filePaths = <<>> THEN <<>>
    ELSE getDiagnosticsForFile(held, Head(filePaths)) \o getDiagnostics(held, Tail(filePaths))

\* what the language service may hold for the files
Contents == [Files -> {"clean", "broken"}]

\* a call of a debounced function: its window starts again
Restarted(timer) == [timer EXCEPT !.pending = TRUE, !.elapsed = 0]

\* the cache is not called in the step
CacheIdle ==
    /\ Silent
    /\ UNCHANGED <<errorsByFilePath, lastErrorsByFilePath, timeout, elapsed, channel,
                   wired>>

\* a change of project that keeps the errors of the previous one
setActiveProjectConfigDetailsKeeping(project, loaded) ==
    /\ currentProject' = project
    /\ contents' = loaded
    /\ setErrorsByFilePaths("src", getFilePaths(project),
                            getDiagnostics(loaded, getFilePaths(project)))
    /\ UNCHANGED <<refreshAll, refreshFile>>

\* setActiveProjectConfigDetails, lines 221-232: clearErrors() and then
\* refreshAllProjectDiagnostics() for the new project, whose files were
\* loaded with the contents loaded
setActiveProjectConfigDetails(project, loaded) ==
    LET cleared == <<>>
        r == setErrorsResult(cleared, getFilePaths(project),
                             getDiagnostics(loaded, getFilePaths(project)))
    IN /\ currentProject' = project
       /\ contents' = loaded
       /\ errorsByFilePath' = [errorsByFilePath EXCEPT !["src"] = r.store]
       /\ sendErrors("src")
       /\ Silent
       /\ UNCHANGED <<lastErrorsByFilePath, channel, wired, refreshAll, refreshFile>>

\* a fileEdited whose single-file refresh keeps the path of the first call of
\* the window
fileEditedKeepsFirst(filePath, edited, small) ==
    IF ifCurrent(filePath)
    THEN /\ contents' = [contents EXCEPT ![filePath] = edited]
         /\ refreshFile' = IF ~small THEN refreshFile
                           ELSE IF refreshFile.pending THEN Restarted(refreshFile)
                           ELSE [pending |-> TRUE, elapsed |-> 0, filePath |-> filePath]
         /\ refreshAll' = Restarted(refreshAll)
         /\ CacheIdle
         /\ UNCHANGED currentProject
    ELSE CacheIdle /\ UNCHANGED producer

\* fileEdited, lines 242-257; small is whether the edit starts before line 1000
fileEdited(filePath, edited, small) ==
    IF ifCurrent(filePath)
    THEN /\ contents' = [contents EXCEPT ![filePath] = edited]
         /\ refreshFile' = IF small
                           THEN [pending |-> TRUE, elapsed |-> 0, filePath |-> filePath]
                           ELSE refreshFile
         /\ refreshAll' = Restarted(refreshAll)
         /\ CacheIdle
         /\ UNCHANGED currentProject
    ELSE CacheIdle /\ UNCHANGED producer

\* fileChangedOnDisk, lines 258-265
fileChangedOnDisk(filePath, changed) ==
    IF ifCurrent(filePath)
    THEN /\ contents' = [contents EXCEPT ![filePath] = changed]
         /\ refreshAll' = Restarted(refreshAll)
         /\ CacheIdle
         /\ UNCHANGED <<currentProject, refreshFile>>
    ELSE CacheIdle /\ UNCHANGED producer

\* a whole-project refresh that lists the files it has diagnostics for
refreshAllProjectDiagnosticsOfBroken ==
    /\ refreshAll.pending
    /\ refreshAll.elapsed = WaitTicks
    /\ refreshAll' = Idle
    /\ IF currentProject # NoProject
       THEN setErrorsByFilePaths("src",
                                 SelectSeq(getFilePaths(currentProject),
                                           LAMBDA f : contents[f] = "broken"),
                                 getDiagnostics(contents, getFilePaths(currentProject)))
       ELSE CacheIdle
    /\ UNCHANGED <<currentProject, contents, refreshFile>>

\* refreshAllProjectDiagnostics, lines 272-295, run by its timer
refreshAllProjectDiagnostics ==
    /\ refreshAll.pending
    /\ refreshAll.elapsed = WaitTicks
    /\ refreshAll' = Idle
    /\ IF currentProject # NoProject
       THEN setErrorsByFilePaths("src", getFilePaths(currentProject),
                                 getDiagnostics(contents, getFilePaths(currentProject)))
       ELSE CacheIdle
    /\ UNCHANGED <<currentProject, contents, refreshFile>>

\* a single-file refresh that writes what it computed whatever the project
refreshFileDiagnosticsUnchecked ==
    /\ refreshFile.pending
    /\ refreshFile.elapsed = WaitTicks
    /\ refreshFile' = [refreshFile EXCEPT !.pending = FALSE, !.elapsed = 0]
    /\ setErrorsByFilePaths("src", <<refreshFile.filePath>>,
                            getDiagnosticsForFile(contents, refreshFile.filePath))
    /\ UNCHANGED <<currentProject, contents, refreshAll>>

\* refreshFileDiagnostics, lines 301-308, run by its timer with the file of
\* the last call
refreshFileDiagnostics ==
    /\ refreshFile.pending
    /\ refreshFile.elapsed = WaitTicks
    /\ refreshFile' = [refreshFile EXCEPT !.pending = FALSE, !.elapsed = 0]
    /\ IF ifCurrent(refreshFile.filePath)
       THEN setErrorsByFilePaths("src", <<refreshFile.filePath>>,
                                 getDiagnosticsForFile(contents, refreshFile.filePath))
       ELSE CacheIdle
    /\ UNCHANGED <<currentProject, contents, refreshAll>>

\* time passes for the pending whole-project refresh
TickRefreshAll ==
    /\ refreshAll.pending
    /\ refreshAll.elapsed < WaitTicks
    /\ refreshAll' = [refreshAll EXCEPT !.elapsed = @ + 1]
    /\ CacheIdle
    /\ UNCHANGED <<currentProject, contents, refreshFile>>

\* time passes for the pending single-file refresh
TickRefreshFile ==
    /\ refreshFile.pending
    /\ refreshFile.elapsed < WaitTicks
    /\ refreshFile' = [refreshFile EXCEPT !.elapsed = @ + 1]
    /\ CacheIdle
    /\ UNCHANGED <<currentProject, contents, refreshAll>>

\* a step of the runs of the producer: no query returns in it, the arrays
\* and the timers of the host are not told apart
Produced ==
    /\ returned' = NoResult
    /\ UNCHANGED <<heap, refs, timers, budget, piped>>

SetActiveProjectConfigDetails ==
    /\ \E project \in Projects, loaded \in Contents :
           setActiveProjectConfigDetails(project, loaded)
    /\ Produced

FileEdited ==
    /\ \E filePath \in Files, edited \in {"clean", "broken"}, small \in BOOLEAN :
           fileEdited(filePath, edited, small)
    /\ Produced

FileChangedOnDisk ==
    /\ \E filePath \in Files, changed \in {"clean", "broken"} :
           fileChangedOnDisk(filePath, changed)
    /\ Produced

RefreshAllProjectDiagnostics == refreshAllProjectDiagnostics /\ Produced

RefreshFileDiagnostics == refreshFileDiagnostics /\ Produced

TickAll == TickRefreshAll /\ Produced

TickFile == TickRefreshFile /\ Produced

TickCache == Tick("src") /\ UNCHANGED producer /\ Produced

FireCache == Fire("src") /\ UNCHANGED producer /\ Produced

NextProject ==
    \/ SetActiveProjectConfigDetails
    \/ FileEdited
    \/ FileChangedOnDisk
    \/ RefreshAllProjectDiagnostics
    \/ RefreshFileDiagnostics
    \/ TickAll
    \/ TickFile
    \/ TickCache
    \/ FireCache

SpecProject == Init /\ [][NextProject]_vars

\* the diagnostics of a project, grouped by file: one entry for each broken
\* file of the project, in the order of its files
RECURSIVE Grouped(_, _)
Grouped(held, filePaths) ==
    IF filePaths = <<>> THEN <<>>
    ELSE (IF held[Head(filePaths)] = "broken"
          THEN <<<<Head(filePaths), getDiagnosticsForFile(held, Head(filePaths))>>>>
          ELSE <<>>) \o Grouped(held, Tail(filePaths))

\* C27: when setActiveProjectConfigDetails returns, the store holds exactly
\* the diagnostics of the new project, grouped by file, and none reported for
\* the previous project; the step emits nothing, the cleared store is never
\* emitted, the baseline is still the last state sent, an emission is
\* scheduled, and its delta, when it fires next, is the one from that last
\* sent state to the state of the new project.
ProjectChange ==
    [][/\ \A project \in Projects, loaded \in Contents :
              setActiveProjectConfigDetails(project, loaded) =>
                  /\ errorsByFilePath'["src"] = Grouped(loaded, getFilePaths(project))
                  /\ emitted'["src"] = <<>>
                  /\ lastErrorsByFilePath'["src"] = lastErrorsByFilePath["src"]
                  /\ Scheduled("src")
                  /\ NextDelta = computeDelta(lastErrorsByFilePath["src"],
                                              Grouped(loaded, getFilePaths(project)))
       /\ emitted'["src"] # <<>> =>
              /\ currentProject' = currentProject
              /\ emitted'["src"][1].value = getErrorsLimited(errorsByFilePath["src"])
              /\ emitted'["src"][2].value
                     = computeDelta(lastErrorsByFilePath["src"], errorsByFilePath["src"])]_vars

\* the project was changed from p1, whose a.ts was broken and sent, to p2:
\* the store holds the diagnostic of b.ts alone and the emission is pending
ProjectChangeWitness ==
    /\ currentProject = "p2"
    /\ AsMap(lastErrorsByFilePath["src"]) = {<<"a.ts", <<e1>>>>, <<"b.ts", <<>>>>}
    /\ AsMap(errorsByFilePath["src"]) = {<<"b.ts", <<e2>>>>}
    /\ timeout["src"]
    /\ elapsed["src"] = 0

\* the files the store holds diagnostics for
Reported(store) == {store[i][1] : i \in {j \in 1..Len(store) : store[j][2] # <<>>}}

\* C29: the debounced single-file refresh looks the file up in the project
\* that is current when it fires: for a file that is not in it, the project
\* having changed since fileEdited, the refresh writes nothing to the cache
\* and triggers nothing; for a file that is in it, it sets the diagnostics of
\* that file alone; so the store never holds diagnostics for a file that is
\* not in the current project.
StaleRefreshIsDropped ==
    [][/\ RefreshFileDiagnostics =>
              IF ifCurrent(refreshFile.filePath)
              THEN errorsByFilePath'["src"]
                       = setErrorsResult(errorsByFilePath["src"], <<refreshFile.filePath>>,
                                         getDiagnosticsForFile(contents,
                                                               refreshFile.filePath)).store
              ELSE UNCHANGED <<errorsByFilePath, lastErrorsByFilePath, timeout, elapsed>>
       /\ \A filePath \in Reported(errorsByFilePath'["src"]) :
              /\ currentProject' # NoProject
              /\ includesSourceFile(currentProject', filePath)]_vars

\* the refresh of a.ts, edited and broken under p1, is due while the current
\* project is p2, which does not hold a.ts
StaleRefreshWitness ==
    /\ currentProject = "p2"
    /\ refreshFile.pending
    /\ refreshFile.filePath = "a.ts"
    /\ refreshFile.elapsed = WaitTicks
    /\ contents["a.ts"] = "broken"
    /\ Reported(errorsByFilePath["src"]) = {"b.ts"}

(***************************************************************************)
(* A producer whose events stop: at most MaxCalls project changes, edits   *)
(* and changes on disk.  The host lets time pass for a pending timer and   *)
(* runs a due one.                                                         *)
(***************************************************************************)
\* an event of the producer
Event ==
    /\ budget > 0
    /\ budget' = budget - 1
    /\ returned' = NoResult
    /\ UNCHANGED <<heap, refs, timers, piped>>

ProjectOpened ==
    /\ \E project \in Projects : setActiveProjectConfigDetails(project, contents)
    /\ Event

EditEvent ==
    /\ \E filePath \in Files, edited \in {"clean", "broken"} :
           fileEdited(filePath, edited, TRUE)
    /\ Event

DiskEvent ==
    /\ \E filePath \in Files, changed \in {"clean", "broken"} :
           fileChangedOnDisk(filePath, changed)
    /\ Event

NextEvents ==
    \/ ProjectOpened
    \/ EditEvent
    \/ DiskEvent
    \/ RefreshAllProjectDiagnostics
    \/ RefreshFileDiagnostics
    \/ TickAll
    \/ TickFile
    \/ TickCache
    \/ FireCache

SpecEvents ==
    /\ InitLive
    /\ [][NextEvents]_vars
    /\ WF_vars(TickAll)
    /\ WF_vars(RefreshAllProjectDiagnostics)

\* the cache holds, for every file of the current project, the diagnostics
\* the language service has for it now: none for a clean file
Refreshed ==
    currentProject # NoProject =>
        \A i \in 1..Len(getFilePaths(currentProject)) :
            getErrorsForFilePath(errorsByFilePath["src"], getFilePaths(currentProject)[i])
                = getDiagnosticsForFile(contents, getFilePaths(currentProject)[i])

\* the step is fileEdited or fileChangedOnDisk for filePath
EventFor(filePath) ==
    \E to \in {"clean", "broken"} :
        fileEdited(filePath, to, TRUE) \/ fileChangedOnDisk(filePath, to)

\* C28: an edit or a change on disk of a file of the current project starts
\* the window of the whole-project refresh again, and one of a file outside
\* it schedules nothing and changes nothing; the refresh, when it runs, calls
\* setErrorsByFilePaths with all the file paths of the current project and
\* its diagnostics, so that a file that is clean now holds none; and once the
\* events stop the refresh runs.
RefreshFollowsEvents ==
    /\ [][/\ \A filePath \in Files :
                 ((EditEvent \/ DiskEvent) /\ EventFor(filePath)) =>
                     IF ifCurrent(filePath)
                     THEN refreshAll' = [pending |-> TRUE, elapsed |-> 0]
                     ELSE UNCHANGED <<producer, errorsByFilePath, timeout, elapsed>>
          /\ RefreshAllProjectDiagnostics =>
                 /\ currentProject # NoProject
                 /\ errorsByFilePath'["src"]
                        = setErrorsResult(errorsByFilePath["src"],
                                          getFilePaths(currentProject),
                                          getDiagnostics(contents,
                                                         getFilePaths(currentProject))).store
                 /\ Refreshed']_vars
    /\ refreshAll.pending ~> (~refreshAll.pending /\ Refreshed)

\* the whole-project refresh is pending after the last event, while the cache
\* holds a diagnostic for a file that is clean now
RefreshFollowsEventsWitness ==
    /\ budget = 0
    /\ refreshAll.pending
    /\ currentProject = "p1"
    /\ contents["a.ts"] = "clean"
    /\ getErrorsForFilePath(errorsByFilePath["src"], "a.ts") = <<e1>>

(***************************************************************************)
(* Subscribers that call the cache back.  TypedEvent.emit invokes the      *)
(* subscribers synchronously, so a mutating operation that a subscriber    *)
(* calls runs inside the body of sendErrors: after line 57 for a           *)
(* subscriber of errorsUpdated, after line 112 for one of errorsDelta.     *)
(***************************************************************************)
\* what a subscriber does during the emit: nothing, clearErrors(), or
\* setErrorsByFilePaths(filePaths, errors)
Reentry(kind, filePaths, errors) ==
    [kind |-> kind, filePaths |-> filePaths, errors |-> errors]

Reentries ==
    {Reentry("none", <<>>, <<>>),
     Reentry("clearErrors", <<>>, <<>>),
     Reentry("setErrorsByFilePaths", <<"b.ts">>, <<e2>>)}

\* the store after the subscriber's call, and whether the call started the
\* timer of sendErrors (lines 140-142, line 170)
reenter(store, op) ==
    IF op.kind = "clearErrors" THEN [store |-> <<>>, scheduled |-> TRUE]
    ELSE IF op.kind = "setErrorsByFilePaths"
    THEN [store |-> setErrorsResult(store, op.filePaths, op.errors).store,
          scheduled |-> setErrorsResult(store, op.filePaths, op.errors).somethingNew]
    ELSE [store |-> store, scheduled |-> FALSE]

\* the body of sendErrors, lines 56-117, while a subscriber of errorsUpdated
\* does onUpdated and a subscriber of errorsDelta does onDelta
RunReentered(c, onUpdated, onDelta) ==
    /\ timeout[c]
    /\ elapsed[c] = WaitTicks
    /\ (wired /\ c = "src") => Len(channel) < MaxChannel
    /\ LET updated == emit("errorsUpdated", getErrorsLimited(errorsByFilePath[c]), {})
           atDelta == reenter(errorsByFilePath[c], onUpdated)
           delta == computeDelta(lastErrorsByFilePath[c], atDelta.store)
           produced == emit("errorsDelta", delta, {})
           atEnd == reenter(atDelta.store, onDelta)
       IN /\ emitted' = [NoEvents EXCEPT ![c] = <<updated, produced>>]
          /\ channel' = IF wired /\ c = "src" THEN Append(channel, delta) ELSE channel
          /\ errorsByFilePath' = [errorsByFilePath EXCEPT ![c] = atEnd.store]
          /\ lastErrorsByFilePath' = [lastErrorsByFilePath EXCEPT ![c] = atEnd.store]
          /\ timeout' = [timeout EXCEPT ![c] = atDelta.scheduled \/ atEnd.scheduled]
    /\ oldErrorsByFilePath' = [NoEvents EXCEPT ![c] = lastErrorsByFilePath[c]]
    /\ elapsed' = [elapsed EXCEPT ![c] = 0]
    /\ UNCHANGED wired

\* the calls the subscribers make during a firing
Reentered(onUpdated, onDelta) ==
    IF onUpdated.kind = "none" /\ onDelta.kind = "none" THEN 0 ELSE 1

\* the subscribers call the cache back in at most MaxCalls firings
InitReentrant ==
    /\ errorsByFilePath = NoEvents
    /\ lastErrorsByFilePath = NoEvents
    /\ timeout = [c \in Caches |-> FALSE]
    /\ elapsed = [c \in Caches |-> 0]
    /\ emitted = NoEvents
    /\ oldErrorsByFilePath = NoEvents
    /\ channel = <<>>
    /\ wired = TRUE
    /\ returned = NoResult
    /\ heap = <<>>
    /\ refs = NoRefs
    /\ timers = NoTimers
    /\ budget = MaxCalls
    /\ piped = {}
    /\ ProducerInit

FireReentered ==
    /\ \E onUpdated \in Reentries, onDelta \in Reentries :
           /\ RunReentered("src", onUpdated, onDelta)
           /\ budget >= Reentered(onUpdated, onDelta)
           /\ budget' = budget - Reentered(onUpdated, onDelta)
    /\ returned' = NoResult
    /\ UNCHANGED <<heap, refs, timers, producer, piped>>

\* the producer reports a diagnostic of a.ts, or that a.ts is clean
ReportOrClean ==
    /\ \E errors \in {<<e1>>, <<>>} : setErrorsByFilePaths("src", <<"a.ts">>, errors)
    /\ Plain

NextReentrant ==
    \/ ReportOrClean
    \/ TickSrc
    \/ FireReentered
    \/ Deliver

SpecReentrant == InitReentrant /\ [][NextReentrant]_vars

\* C30: after a firing the baseline is the store the emitted delta was
\* computed from (the delta applied to the previous baseline has the
\* (filePath, identityKey) pairs of the new one), also when a subscriber
\* changes the store during the emission; and the deltas emitted so far,
\* applied in order, give the (filePath, identityKey) pairs of the store of
\* the last firing.
DeltasAccountForBaseline ==
    /\ Fired("src") =>
           KeyPairs(applyDeltaStore(oldErrorsByFilePath["src"], SentDelta("src")))
               = KeyPairs(lastErrorsByFilePath["src"])
    /\ KeyPairs(MirrorSoon) = KeyPairs(lastErrorsByFilePath["src"])

(***************************************************************************)
(* A delta that is delivered twice.                                        *)
(***************************************************************************)
\* at no path does the delta add and remove the same identity
DisjointByKey(delta) ==
    \A i \in 1..Len(delta.added), j \in 1..Len(delta.removed) :
        delta.added[i][1] = delta.removed[j][1] =>
            IdentityKeys(delta.added[i][2]) \cap IdentityKeys(delta.removed[j][2]) = {}

\* the second application of delta to a store that is the first one's result
\* has the (filePath, identityKey) pairs of the first and holds the added
\* diagnostics once more
SameKeysHeldTwice(once, delta) ==
    /\ KeyPairs(applyDeltaStore(once, delta)) = KeyPairs(once)
    /\ \A i \in 1..Len(delta.added) :
           Len(getErrorsForFilePath(applyDeltaStore(once, delta), delta.added[i][1]))
               = Len(getErrorsForFilePath(once, delta.added[i][1]))
                     + Len(delta.added[i][2])

\* C31: for a delta whose added and removed parts are disjoint by identity
\* key at every path, applyDelta applied twice gives the (filePath,
\* identityKey) pairs of applyDelta applied once, and the lists then hold the
\* added diagnostics twice.
ApplyDeltaIdempotent ==
    [][\A delta \in DeltaInputs :
           (applyDelta("src", delta) /\ DisjointByKey(delta)) =>
               SameKeysHeldTwice(errorsByFilePath'["src"], delta)]_vars

\* the store is the baseline with a delta applied that adds and removes, and
\* a second application would lengthen a list
ApplyDeltaIdempotentWitness ==
    /\ timeout["src"]
    /\ \E delta \in DeltaInputs :
           /\ delta.added # <<>>
           /\ delta.removed # <<>>
           /\ DisjointByKey(delta)
           /\ errorsByFilePath["src"] # lastErrorsByFilePath["src"]
           /\ errorsByFilePath["src"]
                  = applyDeltaStore(lastErrorsByFilePath["src"], delta)
           /\ applyDeltaStore(errorsByFilePath["src"], delta) # errorsByFilePath["src"]

(***************************************************************************)
(* The lengths of the mirror's lists.  The source reports lists with two   *)
(* diagnostics of one identity (e1 and e1x) and lists without.             *)
(***************************************************************************)
TwinCalls ==
    {Call(<<"a.ts">>, <<e1>>), Call(<<"a.ts">>, <<e1, e1x>>),
     Call(<<"a.ts">>, <<e1, e3>>), Call(<<"a.ts", "b.ts">>, <<e2>>)}

ReportTwins ==
    /\ \E call \in TwinCalls : setErrorsByFilePaths("src", call.filePaths, call.errors)
    /\ Plain

NextCount ==
    \/ ReportTwins
    \/ TickSrc
    \/ FireSrc
    \/ Deliver

SpecCount == InitMirror /\ [][NextCount]_vars

\* no list of the store holds two diagnostics of one identity
NoTwins(store) ==
    \A i \in 1..Len(store) :
        Cardinality(IdentityKeys(store[i][2])) = Len(store[i][2])

\* C32 as stated: once the deltas in flight are applied the mirror holds at
\* every path a list as long as the source's list at its latest emission,
\* and the totalCount of its limited view is the source's, whatever the
\* lists of the source hold.
SameLengths ==
    /\ \A filePath \in Paths :
           Len(getErrorsForFilePath(MirrorSoon, filePath))
               = Len(getErrorsForFilePath(lastErrorsByFilePath["src"], filePath))
    /\ getErrorsLimited(MirrorSoon).totalCount
           = getErrorsLimited(lastErrorsByFilePath["src"]).totalCount

\* C32, amended: as long as no list of the source held two diagnostics of one
\* identity at an emission, the mirror holds at every path a list as long as
\* the source's list at its latest emission and its totalCount is the
\* source's.
SameLengthsWithoutTwins ==
    [](NoTwins(lastErrorsByFilePath["src"])) => []SameLengths

\* the mirror applied every delta and holds two diagnostics at a.ts, as the
\* source did at its latest emission
SameLengthsWitness ==
    /\ channel = <<>>
    /\ NoTwins(lastErrorsByFilePath["src"])
    /\ Len(getErrorsForFilePath(errorsByFilePath["mirror"], "a.ts")) = 2
    /\ Len(getErrorsForFilePath(errorsByFilePath["mirror"], "b.ts")) = 1
    /\ SameLengths

(***************************************************************************)
(* The limited view of stores with large lists and with empty lists.       *)
(***************************************************************************)
\* clearErrorsForFilePath for a file the store does not hold yet: it gets the
\* key with an empty list (line 175)
ClearFile ==
    /\ Len(errorsByFilePath["src"]) < NFiles
    /\ clearErrorsForFilePath("src", FileName(Len(errorsByFilePath["src"]) + 1))
    /\ Plain

NextView ==
    \/ ReportFile
    \/ ClearFile
    \/ GetErrorsLimited

SpecView == Init /\ [][NextView]_vars

\* C33 as stated: whenever getErrorsLimited reports tooMany = false, its
\* errorsByFilePath is the store: every path with its complete list, the
\* paths with an empty list too.
WholeWhenNotTooMany ==
    ~Limited("src").tooMany => Limited("src").errorsByFilePath = errorsByFilePath["src"]

\* C33, amended: whenever getErrorsLimited reports tooMany = false, its
\* errorsByFilePath holds a prefix of the paths of the store, each with its
\* complete list, and every path it leaves out holds an empty list; no path
\* is left out unless syncCount exceeds 200.
WholeButEmptyWhenNotTooMany ==
    ~Limited("src").tooMany =>
        LET copy == Limited("src").errorsByFilePath
            store == errorsByFilePath["src"]
        IN /\ Len(copy) <= Len(store)
           /\ copy = SubSeq(store, 1, Len(copy))
           /\ \A i \in (Len(copy) + 1)..Len(store) : store[i][2] = <<>>
           /\ Len(copy) < Len(store) => Limited("src").syncCount > TotalLimit

\* getErrorsLimited was called on a store whose lists are all in the view but
\* for a path with an empty list after the file that crossed the limit
WholeButEmptyWitness ==
    /\ returned # NoResult
    /\ ~Limited("src").tooMany
    /\ Limited("src").syncCount > TotalLimit
    /\ Len(Limited("src").errorsByFilePath) < Len(errorsByFilePath["src"])

\* C34: for every reachable store syncCount of getErrorsLimited is at most
\* 250: every included list has at most 50 diagnostics and the running total
\* before the last included file is at most 200; and syncCount exceeds 200
\* only when the last included file is the one that took the total over 200.
SyncCountBounded ==
    LET copy == Limited("src").errorsByFilePath
        sync == Limited("src").syncCount
    IN /\ sync <= TotalLimit + PerFileLimit
       /\ sync = SumFirst(copy, Len(copy))
       /\ \A i \in 1..Len(copy) : Len(copy[i][2]) <= PerFileLimit
       /\ \A i \in 1..(Len(copy) - 1) : SumFirst(copy, i) <= TotalLimit
       /\ sync > TotalLimit =>
              /\ copy # <<>>
              /\ SumFirst(copy, Len(copy) - 1) <= TotalLimit

\* getErrorsLimited was called on a store whose view holds 250 diagnostics and
\* leaves a file out
SyncCountBoundedWitness ==
    /\ returned # NoResult
    /\ Limited("src").syncCount = TotalLimit + PerFileLimit
    /\ Limited("src").tooMany
    /\ Len(Limited("src").errorsByFilePath) < Len(errorsByFilePath["src"])

\* C35: every firing of the emission routine emits one errorsUpdated event
\* and then one errorsDelta event, and no other step emits; when the store is
\* the baseline the delta is emitted all the same, with added and removed
\* empty.
OneOfEachPerFiring ==
    [][/\ FireSrc =>
              /\ Len(emitted'["src"]) = 2
              /\ Head(emitted'["src"]).event = "errorsUpdated"
              /\ emitted'["src"][Len(emitted'["src"])].event = "errorsDelta"
              /\ errorsByFilePath["src"] = lastErrorsByFilePath["src"] =>
                     emitted'["src"][Len(emitted'["src"])].value
                         = [added |-> <<>>, removed |-> <<>>]
       /\ ~FireSrc => emitted' = NoEvents]_vars

\* a firing after clearErrors on an empty cache whose baseline is empty: the
\* delta it emitted is empty
OneOfEachPerFiringWitness ==
    /\ Fired("src")
    /\ errorsByFilePath["src"] = <<>>
    /\ oldErrorsByFilePath["src"] = <<>>
    /\ SentDelta("src") = [added |-> <<>>, removed |-> <<>>]

OneWay == {<<"src", "mirror">>}

BothWays == {<<"src", "mirror">>, <<"mirror", "src">>}

\* a firing that does not hand an empty delta to the subscribed caches
runPipedUnlessEmpty(c) ==
    /\ timeout[c]
    /\ elapsed[c] = WaitTicks
    /\ LET updated == emit("errorsUpdated", getErrorsLimited(errorsByFilePath[c]), {})
           delta == computeDelta(lastErrorsByFilePath[c], errorsByFilePath[c])
           produced == emit("errorsDelta", delta, {})
           told == {d \in Caches : /\ <<c, d>> \in piped
                                   /\ delta # [added |-> <<>>, removed |-> <<>>]}
       IN /\ emitted' = [NoEvents EXCEPT ![c] = <<updated, produced>>]
          /\ errorsByFilePath' =
                 [d \in Caches |-> IF d \in told
                                   THEN applyDeltaStore(errorsByFilePath[d], delta)
                                   ELSE errorsByFilePath[d]]
          /\ timeout' = [d \in Caches |-> IF d \in told THEN TRUE
                                          ELSE IF d = c THEN FALSE ELSE timeout[d]]
          /\ elapsed' = [d \in Caches |-> IF d \in told \/ d = c THEN 0 ELSE elapsed[d]]
    /\ lastErrorsByFilePath' = [lastErrorsByFilePath EXCEPT ![c] = errorsByFilePath[c]]
    /\ oldErrorsByFilePath' = [NoEvents EXCEPT ![c] = lastErrorsByFilePath[c]]
    /\ UNCHANGED <<channel, wired>>

\* the body of sendErrors, lines 56-117, run by the timer of cache c: the
\* emit of line 112 calls applyDelta (lines 27-39) of the caches subscribed
\* to c, which merge the delta and start their own timers
runPiped(c) ==
    /\ timeout[c]
    /\ elapsed[c] = WaitTicks
    /\ LET updated == emit("errorsUpdated", getErrorsLimited(errorsByFilePath[c]), {})
           delta == computeDelta(lastErrorsByFilePath[c], errorsByFilePath[c])
           produced == emit("errorsDelta", delta, {})
           told == {d \in Caches : <<c, d>> \in piped}
       IN /\ emitted' = [NoEvents EXCEPT ![c] = <<updated, produced>>]
          /\ errorsByFilePath' =
                 [d \in Caches |-> IF d \in told
                                   THEN applyDeltaStore(errorsByFilePath[d], delta)
                                   ELSE errorsByFilePath[d]]
          /\ timeout' = [d \in Caches |-> IF d \in told THEN TRUE
                                          ELSE IF d = c THEN FALSE ELSE timeout[d]]
          /\ elapsed' = [d \in Caches |-> IF d \in told \/ d = c THEN 0 ELSE elapsed[d]]
    /\ lastErrorsByFilePath' = [lastErrorsByFilePath EXCEPT ![c] = errorsByFilePath[c]]
    /\ oldErrorsByFilePath' = [NoEvents EXCEPT ![c] = lastErrorsByFilePath[c]]
    /\ UNCHANGED <<channel, wired>>

\* the caches are wired one way or both ways; the producer of the source
\* makes at most MaxCalls calls
InitPiped ==
    /\ errorsByFilePath = NoEvents
    /\ lastErrorsByFilePath = NoEvents
    /\ timeout = [c \in Caches |-> FALSE]
    /\ elapsed = [c \in Caches |-> 0]
    /\ emitted = NoEvents
    /\ oldErrorsByFilePath = NoEvents
    /\ channel = <<>>
    /\ wired = FALSE
    /\ returned = NoResult
    /\ heap = <<>>
    /\ refs = NoRefs
    /\ timers = NoTimers
    /\ budget = MaxCalls
    /\ ProducerInit
    /\ piped \in {OneWay, BothWays}

TickMirror == Tick("mirror") /\ Hosted

FireSource == runPiped("src") /\ Hosted

FireMirror == runPiped("mirror") /\ Hosted

NextPiped ==
    \/ LiveSetErrors
    \/ LiveTick
    \/ TickMirror
    \/ FireSource
    \/ FireMirror

SpecPiped ==
    /\ InitPiped
    /\ [][NextPiped]_vars
    /\ WF_vars(LiveTick)
    /\ WF_vars(TickMirror)
    /\ WF_vars(FireSource)
    /\ WF_vars(FireMirror)

\* a cache has a pending emission
Pending == timeout["src"] \/ timeout["mirror"]

\* C37: with the caches wired both ways every firing leaves the other cache
\* with a pending emission, and once a cache has a pending emission one of
\* the two has one at every later time.  With the source wired to the mirror
\* alone, a firing of the source restarts the window of the mirror, which
\* emits nothing in that step; the mirror fires only after a whole window
\* without a delivery, and that firing leaves no emission pending that was
\* not; and once the calls of the producer have stopped no emission is
\* pending any more, for good.
Quiescence ==
    /\ [][piped = BothWays =>
              /\ FireSource => timeout'["mirror"]
              /\ FireMirror => timeout'["src"]
              /\ Pending => Pending']_vars
    /\ [][piped = OneWay =>
              /\ FireSource =>
                     /\ timeout'["mirror"]
                     /\ elapsed'["mirror"] = 0
                     /\ emitted'["mirror"] = <<>>
              /\ FireMirror =>
                     /\ elapsed["mirror"] = WaitTicks
                     /\ ~timeout'["mirror"]
                     /\ timeout'["src"] = timeout["src"]]_vars
    /\ piped = OneWay => <>[](~Pending)

\* wired both ways, the producer has stopped, the last firing emitted an
\* empty delta and the other cache has a pending emission
QuiescenceWitness ==
    /\ piped = BothWays
    /\ budget = 0
    /\ Fired("mirror")
    /\ SentDelta("mirror") = [added |-> <<>>, removed |-> <<>>]
    /\ timeout["src"]
    /\ ~timeout["mirror"]

====
